---- MODULE Spec2Model ----
(***************************************************************************)
(* Model of the Smart Planning correction engine of Demo/agents/sp_agent.py *)
(* (PipelineExecutor and ConvergenceLoop) and of the proposal gate of       *)
(* Demo/smart-planning/runtime/validate_correction_schema_llm.py.           *)
(*                                                                          *)
(* Python strings are modelled by their character sequences (Chars), so     *)
(* that the substring tests of the executor are computed, not assumed.      *)
(* JSON values are records [type, val]; val is always a tuple.              *)
(***************************************************************************)
EXTENDS Integers, Sequences, FiniteSets, TLC

\* ------------------------------------------------------------------------
\* Bounds of the model (not program constants)
\* ------------------------------------------------------------------------

\* largest number of messages the validation service returns for a document
MaxMsgs == 1

\* largest number of failing tool invocations within one execute_pipeline call
MaxFailures == 3

\* runs of the apply tool after which the agent is not called again
MaxApplies == 2

\* ------------------------------------------------------------------------
\* Python values
\* ------------------------------------------------------------------------

\* Python's None (a record, so that it compares with result records)
None == [type |-> "NoneType"]

\* the character sequence of every Python string the model uses
Chars ==
     ("Snapshot nicht gefunden" :> <<"S", "n", "a", "p", "s", "h", "o", "t", " ", "n", "i", "c", "h", "t", " ", "g", "e", "f", "u", "n", "d", "e", "n">>)
  @@ ("Snapshot does not exist" :> <<"S", "n", "a", "p", "s", "h", "o", "t", " ", "d", "o", "e", "s", " ", "n", "o", "t", " ", "e", "x", "i", "s", "t">>)
  @@ ("Authentication failed" :> <<"A", "u", "t", "h", "e", "n", "t", "i", "c", "a", "t", "i", "o", "n", " ", "f", "a", "i", "l", "e", "d">>)
  @@ ("CLIENT_SECRET" :> <<"C", "L", "I", "E", "N", "T", "_", "S", "E", "C", "R", "E", "T">>)
  @@ ("not found" :> <<"n", "o", "t", " ", "f", "o", "u", "n", "d">>)
  @@ ("does not exist" :> <<"d", "o", "e", "s", " ", "n", "o", "t", " ", "e", "x", "i", "s", "t">>)
  @@ ("last_search_results.json" :> <<"l", "a", "s", "t", "_", "s", "e", "a", "r", "c", "h", "_", "r", "e", "s", "u", "l", "t", "s", ".", "j", "s", "o", "n">>)
  @@ ("snapshot" :> <<"s", "n", "a", "p", "s", "h", "o", "t">>)
  @@ ("exist" :> <<"e", "x", "i", "s", "t">>)
  @@ ("auth" :> <<"a", "u", "t", "h">>)
  @@ ("validation" :> <<"v", "a", "l", "i", "d", "a", "t", "i", "o", "n">>)
  @@ ("error" :> <<"e", "r", "r", "o", "r">>)
  @@ ("validate_snapshot" :> <<"v", "a", "l", "i", "d", "a", "t", "e", "_", "s", "n", "a", "p", "s", "h", "o", "t">>)
  @@ ("identify_error_llm" :> <<"i", "d", "e", "n", "t", "i", "f", "y", "_", "e", "r", "r", "o", "r", "_", "l", "l", "m">>)
  @@ ("generate_correction_llm" :> <<"g", "e", "n", "e", "r", "a", "t", "e", "_", "c", "o", "r", "r", "e", "c", "t", "i", "o", "n", "_", "l", "l", "m">>)
  @@ ("validate_correction_schema_llm" :> <<"v", "a", "l", "i", "d", "a", "t", "e", "_", "c", "o", "r", "r", "e", "c", "t", "i", "o", "n", "_", "s", "c", "h", "e", "m", "a", "_", "l", "l", "m">>)
  @@ ("apply_correction" :> <<"a", "p", "p", "l", "y", "_", "c", "o", "r", "r", "e", "c", "t", "i", "o", "n">>)
  @@ ("update_snapshot" :> <<"u", "p", "d", "a", "t", "e", "_", "s", "n", "a", "p", "s", "h", "o", "t">>)
  @@ ("" :> <<>>)
  @@ ("Tool-Ausfuehrung Timeout (>5min)" :> <<"T", "o", "o", "l", "-", "A", "u", "s", "f", "u", "e", "h", "r", "u", "n", "g", " ", "T", "i", "m", "e", "o", "u", "t", " ", "(", ">", "5", "m", "i", "n", ")">>)
  @@ ("ValueError: CLIENT_SECRET not found in environment variables" :> <<"V", "a", "l", "u", "e", "E", "r", "r", "o", "r", ":", " ", "C", "L", "I", "E", "N", "T", "_", "S", "E", "C", "R", "E", "T", " ", "n", "o", "t", " ", "f", "o", "u", "n", "d", " ", "i", "n", " ", "e", "n", "v", "i", "r", "o", "n", "m", "e", "n", "t", " ", "v", "a", "r", "i", "a", "b", "l", "e", "s">>)
  @@ ("FileNotFoundError: last_search_results.json not found in A" :> <<"F", "i", "l", "e", "N", "o", "t", "F", "o", "u", "n", "d", "E", "r", "r", "o", "r", ":", " ", "l", "a", "s", "t", "_", "s", "e", "a", "r", "c", "h", "_", "r", "e", "s", "u", "l", "t", "s", ".", "j", "s", "o", "n", " ", "n", "o", "t", " ", "f", "o", "u", "n", "d", " ", "i", "n", " ", "A">>)
  @@ ("IndexError: Index 7 out of range for array 'demands' (length: 2)" :> <<"I", "n", "d", "e", "x", "E", "r", "r", "o", "r", ":", " ", "I", "n", "d", "e", "x", " ", "7", " ", "o", "u", "t", " ", "o", "f", " ", "r", "a", "n", "g", "e", " ", "f", "o", "r", " ", "a", "r", "r", "a", "y", " ", "'", "d", "e", "m", "a", "n", "d", "s", "'", " ", "(", "l", "e", "n", "g", "t", "h", ":", " ", "2", ")">>)
  @@ ("FileNotFoundError: llm_identify_response.json not found in iteration-1" :> <<"F", "i", "l", "e", "N", "o", "t", "F", "o", "u", "n", "d", "E", "r", "r", "o", "r", ":", " ", "l", "l", "m", "_", "i", "d", "e", "n", "t", "i", "f", "y", "_", "r", "e", "s", "p", "o", "n", "s", "e", ".", "j", "s", "o", "n", " ", "n", "o", "t", " ", "f", "o", "u", "n", "d", " ", "i", "n", " ", "i", "t", "e", "r", "a", "t", "i", "o", "n", "-", "1">>)
  @@ ("D1_2" :> <<"D", "1", "_", "2">>)
  @@ ("E7" :> <<"E", "7">>)
  @@ ("[\"E7\"]" :> <<"[", "\"", "E", "7", "\"", "]">>)
  @@ ("{\"demandId\": \"D5\"}" :> <<"{", "\"", "d", "e", "m", "a", "n", "d", "I", "d", "\"", ":", " ", "\"", "D", "5", "\"", "}">>)
  @@ ("[draft" :> <<"[", "d", "r", "a", "f", "t">>)
  @@ ("USE_REFERENCE_DATA" :> <<"U", "S", "E", "_", "R", "E", "F", "E", "R", "E", "N", "C", "E", "_", "D", "A", "T", "A">>)
  @@ ("ValueError: update_field action requires full path with index and field: demands" :> <<"V", "a", "l", "u", "e", "E", "r", "r", "o", "r", ":", " ", "u", "p", "d", "a", "t", "e", "_", "f", "i", "e", "l", "d", " ", "a", "c", "t", "i", "o", "n", " ", "r", "e", "q", "u", "i", "r", "e", "s", " ", "f", "u", "l", "l", " ", "p", "a", "t", "h", " ", "w", "i", "t", "h", " ", "i", "n", "d", "e", "x", " ", "a", "n", "d", " ", "f", "i", "e", "l", "d", ":", " ", "d", "e", "m", "a", "n", "d", "s">>)
  @@ ("KeyError: \"Array 'orders' not found in snapshot data\"" :> <<"K", "e", "y", "E", "r", "r", "o", "r", ":", " ", "\"", "A", "r", "r", "a", "y", " ", "'", "o", "r", "d", "e", "r", "s", "'", " ", "n", "o", "t", " ", "f", "o", "u", "n", "d", " ", "i", "n", " ", "s", "n", "a", "p", "s", "h", "o", "t", " ", "d", "a", "t", "a", "\"">>)
  @@ ("TypeError: 'workers' is not an array" :> <<"T", "y", "p", "e", "E", "r", "r", "o", "r", ":", " ", "'", "w", "o", "r", "k", "e", "r", "s", "'", " ", "i", "s", " ", "n", "o", "t", " ", "a", "n", " ", "a", "r", "r", "a", "y">>)
  @@ ("AttributeError: 'NoneType' object has no attribute 'get'" :> <<"A", "t", "t", "r", "i", "b", "u", "t", "e", "E", "r", "r", "o", "r", ":", " ", "'", "N", "o", "n", "e", "T", "y", "p", "e", "'", " ", "o", "b", "j", "e", "c", "t", " ", "h", "a", "s", " ", "n", "o", " ", "a", "t", "t", "r", "i", "b", "u", "t", "e", " ", "'", "g", "e", "t", "'">>)
  @@ ("FileNotFoundError: No iteration folders with llm_correction_proposal.json found" :> <<"F", "i", "l", "e", "N", "o", "t", "F", "o", "u", "n", "d", "E", "r", "r", "o", "r", ":", " ", "N", "o", " ", "i", "t", "e", "r", "a", "t", "i", "o", "n", " ", "f", "o", "l", "d", "e", "r", "s", " ", "w", "i", "t", "h", " ", "l", "l", "m", "_", "c", "o", "r", "r", "e", "c", "t", "i", "o", "n", "_", "p", "r", "o", "p", "o", "s", "a", "l", ".", "j", "s", "o", "n", " ", "f", "o", "u", "n", "d">>)
  @@ ("FileNotFoundError: No iteration folders found in ../Snapshots/A" :> <<"F", "i", "l", "e", "N", "o", "t", "F", "o", "u", "n", "d", "E", "r", "r", "o", "r", ":", " ", "N", "o", " ", "i", "t", "e", "r", "a", "t", "i", "o", "n", " ", "f", "o", "l", "d", "e", "r", "s", " ", "f", "o", "u", "n", "d", " ", "i", "n", " ", ".", ".", "/", "S", "n", "a", "p", "s", "h", "o", "t", "s", "/", "A">>)
  @@ ("FileNotFoundError: No iteration folders with llm_identify_response.json found" :> <<"F", "i", "l", "e", "N", "o", "t", "F", "o", "u", "n", "d", "E", "r", "r", "o", "r", ":", " ", "N", "o", " ", "i", "t", "e", "r", "a", "t", "i", "o", "n", " ", "f", "o", "l", "d", "e", "r", "s", " ", "w", "i", "t", "h", " ", "l", "l", "m", "_", "i", "d", "e", "n", "t", "i", "f", "y", "_", "r", "e", "s", "p", "o", "n", "s", "e", ".", "j", "s", "o", "n", " ", "f", "o", "u", "n", "d">>)

\* the upper-case letters and, at the same index, their lower-case letters
Upper ==
  <<"A", "B", "C", "D", "E", "F", "G", "H", "I", "J", "K", "L", "M", "N", "O", "P", "Q", "R", "S", "T", "U", "V", "W", "X", "Y", "Z">>

LowerOf ==
  <<"a", "b", "c", "d", "e", "f", "g", "h", "i", "j", "k", "l", "m", "n", "o", "p", "q", "r", "s", "t", "u", "v", "w", "x", "y", "z">>

\* str.lower() on one character
LowerChar(c) ==
  IF \E i \in 1..Len(Upper) : Upper[i] = c
  THEN LowerOf[CHOOSE i \in 1..Len(Upper) : Upper[i] = c]
  ELSE c

\* str.lower() on a character sequence
Lower(s) == [i \in 1..Len(s) |-> LowerChar(s[i])]

\* Python's `pat in s` on character sequences
Contains(s, pat) ==
  \E i \in 1..(Len(s) - Len(pat) + 1) : SubSeq(s, i, i + Len(pat) - 1) = pat

\* text.lower() of every Python string the model uses
LowerChars == [text \in DOMAIN Chars |-> Lower(Chars[text])]

\* `pat in text` and `pat in text.lower()` tabulated for the strings the
\* model uses
InTable ==
  [text \in DOMAIN Chars |->
     [pat \in DOMAIN Chars |-> Contains(Chars[text], Chars[pat])]]

InLowerTable ==
  [text \in DOMAIN Chars |->
     [pat \in DOMAIN Chars |-> Contains(LowerChars[text], Chars[pat])]]

\* `pat in text` for two Python strings
In(pat, text) == InTable[text][pat]

\* `pat in text.lower()`
InLower(pat, text) == InLowerTable[text][pat]

\* ------------------------------------------------------------------------
\* sp_tools_config.py
\* ------------------------------------------------------------------------

SP_PIPELINES ==
  [ full_correction |->
      << "validate_snapshot", "identify_error_llm", "generate_correction_llm",
         "validate_correction_schema_llm", "apply_correction",
         "update_snapshot", "validate_snapshot" >>,
    correction_from_validation |->
      << "identify_error_llm", "generate_correction_llm",
         "validate_correction_schema_llm", "apply_correction",
         "update_snapshot", "validate_snapshot" >>,
    analyze_only |->
      << "validate_snapshot", "identify_error_llm", "generate_correction_llm",
         "validate_correction_schema_llm" >>,
    apply_and_upload |->
      << "apply_correction", "update_snapshot", "validate_snapshot" >> ]

PipelineNames == DOMAIN SP_PIPELINES

\* ------------------------------------------------------------------------
\* sp_agent.py: constants of the executor and of the convergence loop
\* ------------------------------------------------------------------------

max_retries == 2

MAX_CORRECTION_ITERATIONS == 5

non_retryable_errors ==
  { "Snapshot nicht gefunden", "Snapshot does not exist",
    "Authentication failed", "CLIENT_SECRET" }

\* the result _run_tool returns when subprocess.run raises TimeoutExpired
\* (the source text has a u-umlaut in "Ausfuehrung")
TimeoutResult ==
  [success |-> FALSE, stderr |-> "", error |-> "Tool-Ausfuehrung Timeout (>5min)"]

\* the result _run_tool builds from a finished subprocess
ProcessResult(returncode, stderr) ==
  [success |-> (returncode = 0), stderr |-> stderr, error |-> ""]

\* error_msg = tool_result.get("stderr", "") or tool_result.get("error", "")
ErrorMsg(tool_result) ==
  IF tool_result.stderr # "" THEN tool_result.stderr ELSE tool_result.error

\* variant of IsNonRetryable without the two snapshot-not-found patterns
IsNonRetryable_AuthOnly(error_msg) ==
  \E err \in { "Authentication failed", "CLIENT_SECRET" } : In(err, error_msg)

\* any(err in error_msg for err in non_retryable_errors)
IsNonRetryable(error_msg) ==
  \E err \in non_retryable_errors : In(err, error_msg)

\* variant of IsCorrectionPipeline that takes every pipeline for a
\* correction pipeline
IsCorrectionPipeline_Every(p) == p \in PipelineNames

\* is_correction_pipeline
IsCorrectionPipeline(p) == p \in {"full_correction", "correction_from_validation"}

\* ------------------------------------------------------------------------
\* JSON values: [type, val], val a tuple (a str holds its tokens)
\* ------------------------------------------------------------------------

JStr(s) == [type |-> "str", val |-> <<s>>]

JPath(tokens) == [type |-> "str", val |-> tokens]

JInt(n) == [type |-> "int", val |-> <<n>>]

JNull == [type |-> "null", val |-> <<>>]

\* a key that is absent from a JSON object
JMissing == [type |-> "missing", val |-> <<>>]

JList(items) == [type |-> "list", val |-> items]

\* a JSON object given as a TLA+ record, kept in a one-element tuple
JDict(rec) == [type |-> "dict", val |-> <<rec>>]

\* ------------------------------------------------------------------------
\* sp_agent.py: _suggest_recovery
\* ------------------------------------------------------------------------

\* variant of _suggest_recovery whose generic case does not name the step
_suggest_recovery_Bare(failed_step, tool_result) ==
  IF InLower("not found", ErrorMsg(tool_result))
  THEN [ error_type |-> "missing_file", context |-> "prerequisite_step_failed" ]
  ELSE [ error_type |-> "unknown" ]

_suggest_recovery(failed_step, tool_result) ==
  LET error_msg == ErrorMsg(tool_result) IN
  IF InLower("not found", error_msg) \/ InLower("does not exist", error_msg)
  THEN IF In("last_search_results.json", error_msg)
       THEN [ error_type |-> "missing_prerequisite",
              missing_step |-> "identify_error_llm",
              required_file |-> "last_search_results.json",
              suggestion |-> "run_identify_error_first" ]
       ELSE [ error_type |-> "missing_file",
              context |-> "prerequisite_step_failed" ]
  ELSE IF InLower("snapshot", error_msg)
          /\ (InLower("not found", error_msg) \/ InLower("exist", error_msg))
  THEN [ error_type |-> "snapshot_not_found",
         context |-> "invalid_or_nonexistent_snapshot_id" ]
  ELSE IF InLower("auth", error_msg) \/ In("CLIENT_SECRET", error_msg)
  THEN [ error_type |-> "authentication_failed",
         config_issue |-> "CLIENT_SECRET" ]
  ELSE IF InLower("validation", error_msg) \/ InLower("error", failed_step)
  THEN [ error_type |-> "validation_error",
         context |-> "snapshot_has_uncorrectable_errors" ]
  ELSE [ error_type |-> "unknown", failed_step |-> failed_step ]

\* ------------------------------------------------------------------------
\* Storage: {snapshot_id}/snapshot-validation.json
\* ------------------------------------------------------------------------

Levels == {"ERROR", "WARNING"}

\* the message lists the validation service can return (levels only)
ValidationData == UNION { [1..n -> Levels] : n \in 0..MaxMsgs }

\* a JSON file: load_json returns None when it does not exist
NoFile == [exists |-> FALSE, data |-> <<>>]

FileOf(data) == [exists |-> TRUE, data |-> data]

\* sum(1 for msg in validation_data if msg.get('level') == level)
CountLevel(data, level) == Cardinality({ i \in DOMAIN data : data[i] = level })

\* variant of FinalValidationStatus that counts WARNING messages as errors
FinalValidationStatus_WarningsCount(p, sid, vfile, storage_fails) ==
  IF IsCorrectionPipeline(p) /\ sid # ""
  THEN IF storage_fails
       THEN None
       ELSE LET validation_data == vfile.data
                has_data == vfile.exists /\ validation_data # <<>>
                error_count ==
                  IF has_data THEN Len(validation_data) ELSE 0
                warning_count ==
                  IF has_data THEN CountLevel(validation_data, "WARNING") ELSE 0
            IN [ errors |-> error_count,
                 warnings |-> warning_count,
                 is_valid |-> (error_count = 0) ]
  ELSE None

\* the final_validation_status block of _execute_pipeline; storage_fails is
\* the `except Exception` branch around the storage reads.  The field
\* server_validated (read from upload-result.json) is left out: nothing in
\* the loop depends on it.
FinalValidationStatus(p, sid, vfile, storage_fails) ==
  IF IsCorrectionPipeline(p) /\ sid # ""
  THEN IF storage_fails
       THEN None
       ELSE LET validation_data == vfile.data
                has_data == vfile.exists /\ validation_data # <<>>
                error_count ==
                  IF has_data THEN CountLevel(validation_data, "ERROR") ELSE 0
                warning_count ==
                  IF has_data THEN CountLevel(validation_data, "WARNING") ELSE 0
            IN [ errors |-> error_count,
                 warnings |-> warning_count,
                 is_valid |-> (error_count = 0) ]
  ELSE None

\* variant of LoopBreaks whose iteration cap is off by one
LoopBreaks_SixthRun(p, result, iter) ==
  IF ~IsCorrectionPipeline(p) \/ ~result.success THEN TRUE
  ELSE IF result.final_validation = None THEN TRUE
  ELSE IF result.final_validation.errors = 0 THEN TRUE
  ELSE iter > MAX_CORRECTION_ITERATIONS

\* variant of LoopBreaks without the break on a failed run
LoopBreaks_IgnoreFailure(p, result, iter) ==
  IF ~IsCorrectionPipeline(p) THEN TRUE
  ELSE IF result.success /\ result.final_validation = None THEN TRUE
  ELSE IF result.success /\ result.final_validation.errors = 0 THEN TRUE
  ELSE iter >= MAX_CORRECTION_ITERATIONS

\* the loop body of execute_pipeline after _execute_pipeline has returned:
\* TRUE when the loop breaks, FALSE when another iteration starts
LoopBreaks(p, result, iter) ==
  IF ~IsCorrectionPipeline(p) \/ ~result.success THEN TRUE
  ELSE IF result.final_validation = None THEN TRUE
  ELSE IF result.final_validation.errors = 0 THEN TRUE
  ELSE iter >= MAX_CORRECTION_ITERATIONS

\* ------------------------------------------------------------------------
\* correction_models.py: the Pydantic models the gate validates against
\* ------------------------------------------------------------------------

\* Union[str, int, float, bool, None]: the key must be present (Field(...))
IsScalarOrNone(v) == v.type \in {"str", "int", "float", "bool", "null"}

\* Optional[Union[str, int, float, bool, None, dict]] = Field(None, ...)
IsOptionalValue(v) ==
  v.type \in {"str", "int", "float", "bool", "null", "dict", "missing"}

\* class AdditionalUpdate
AdditionalUpdate(v) ==
  /\ v.type = "dict"
  /\ LET u == v.val[1] IN
       /\ u.target_path.type = "str"
       /\ IsScalarOrNone(u.current_value)
       /\ IsScalarOrNone(u.new_value)

\* class CorrectionProposal
CorrectionProposal(v) ==
  /\ v.type = "dict"
  /\ LET p == v.val[1] IN
       /\ p.action.type = "str"
       /\ p.target_path.type = "str"
       /\ IsOptionalValue(p.current_value)
       /\ IsOptionalValue(p.new_value)
       /\ p.reasoning.type = "str"
       /\ \/ p.additional_updates.type \in {"missing", "null"}
          \/ /\ p.additional_updates.type = "list"
             /\ \A i \in DOMAIN p.additional_updates.val :
                  AdditionalUpdate(p.additional_updates.val[i])

\* class OriginalError
OriginalError(v) ==
  /\ v.type = "dict"
  /\ v.val[1].level.type = "str"
  /\ v.val[1].message.type = "str"

\* class ErrorAnalyzed
ErrorAnalyzed(v) ==
  /\ v.type = "dict"
  /\ LET e == v.val[1] IN
       /\ e.search_mode.type = "str"
       /\ e.search_value.type \in {"str", "int", "null", "missing"}
       /\ e.error_type.type = "str"
       /\ e.results_count.type = "int"

\* class LLMCorrectionResponse
LLMCorrectionResponse(r) ==
  /\ r.iteration.type = "int"
  /\ r.snapshot_id.type = "str"
  /\ OriginalError(r.original_error)
  /\ ErrorAnalyzed(r.error_analyzed)
  /\ CorrectionProposal(r.correction_proposal)

\* validate_correction_proposal: TRUE iff no ValidationError is raised
validate_correction_proposal(correction_proposal) ==
  LLMCorrectionResponse(correction_proposal)

\* ------------------------------------------------------------------------
\* apply_correction.py: parse_target_path, on the tokens of a path
\* ------------------------------------------------------------------------

\* tokens that the regular expressions' \w+ cannot match
Punct == {"[", "]", ".", "-", " ", "", "\n"}

\* the tokens \d+ matches, and int() of them
Numerals == <<"0", "1", "2", "3">>

IsWord(t) == t \notin Punct

IsNum(t) == \E i \in DOMAIN Numerals : Numerals[i] = t

IntOf(t) == (CHOOSE i \in DOMAIN Numerals : Numerals[i] = t) - 1

\* the four patterns tried on the tokens up to the position `$` matches
match_patterns(path) ==
  IF Len(path) = 9 /\ IsWord(path[1])
     /\ path[2] = "[" /\ IsNum(path[3]) /\ path[4] = "]" /\ path[5] = "."
     /\ IsWord(path[6]) /\ path[7] = "[" /\ IsNum(path[8]) /\ path[9] = "]"
  THEN [ ok |-> TRUE, array_name |-> path[1], index |-> <<IntOf(path[3])>>,
         field_name |-> <<"nested:", path[6], "[", path[8], "]">> ]
  ELSE IF Len(path) = 6 /\ IsWord(path[1])
          /\ path[2] = "[" /\ IsNum(path[3]) /\ path[4] = "]" /\ path[5] = "."
          /\ IsWord(path[6])
  THEN [ ok |-> TRUE, array_name |-> path[1], index |-> <<IntOf(path[3])>>,
         field_name |-> <<path[6]>> ]
  ELSE IF Len(path) = 4 /\ IsWord(path[1])
          /\ path[2] = "[" /\ IsNum(path[3]) /\ path[4] = "]"
  THEN [ ok |-> TRUE, array_name |-> path[1], index |-> <<IntOf(path[3])>>,
         field_name |-> <<>> ]
  ELSE IF Len(path) = 1 /\ IsWord(path[1])
  THEN [ ok |-> TRUE, array_name |-> path[1], index |-> <<>>, field_name |-> <<>> ]
  ELSE [ok |-> FALSE, array_name |-> "", index |-> <<>>, field_name |-> <<>>]

\* returns [ok, array_name, index, field_name]; index and field_name are
\* tuples, <<>> standing for None; ok = FALSE stands for the ValueError.
\* `$` also matches just before a newline that ends the string.
parse_target_path(target_path) ==
  match_patterns(IF Len(target_path) > 1 /\ target_path[Len(target_path)] = "\n"
                 THEN SubSeq(target_path, 1, Len(target_path) - 1)
                 ELSE target_path)

\* the actions apply_correction supports
SupportedActions ==
  { "update_field", "add_to_array", "remove_from_array",
    "manual_intervention_required" }

\* apply_single_update accepts the path: index and field are both given
HasFieldComponent(path) ==
  LET t == parse_target_path(path) IN
  t.ok /\ t.index # <<>> /\ t.field_name # <<>>

\* add_to_array accepts the path: neither index nor field is given
IsBareCollection(path) ==
  LET t == parse_target_path(path) IN
  t.ok /\ t.index = <<>> /\ t.field_name = <<>>

\* ------------------------------------------------------------------------
\* apply_correction.py: the operations on the snapshot document
\* ------------------------------------------------------------------------

\* A document is a function from its top-level keys to JSON values; every
\* operation returns [ok, err, data]: ok = FALSE stands for the exception
\* of class err, data is the dictionary as the operation leaves it.
Done(data) == [ok |-> TRUE, err |-> "", data |-> data]

Raise(err, data) == [ok |-> FALSE, err |-> err, data |-> data]

\* dict.get(k): None when the key is absent
Get(rec, k) == IF k \in DOMAIN rec THEN rec[k] ELSE JNull

\* variant of SetItem that keeps the value of a key the dict already has
SetItem_KeepExisting(rec, k, v) ==
  [x \in DOMAIN rec \cup {k} |-> IF x \in DOMAIN rec THEN rec[x] ELSE v]

\* d[k] = v on a dict: replaces the value or creates the key
SetItem(rec, k, v) ==
  [x \in DOMAIN rec \cup {k} |-> IF x = k THEN v ELSE rec[x]]

\* list.pop(i) leaves the list without its element i (0-based)
Pop(items, i) ==
  [k \in 1..(Len(items) - 1) |-> IF k <= i THEN items[k] ELSE items[k + 1]]

\* json.loads on the strings of the model that are JSON arrays or objects
JsonLoads ==
     ("[\"E7\"]" :> JList(<<JStr("E7")>>))
  @@ ("{\"demandId\": \"D5\"}" :> JDict([demandId |-> JStr("D5")]))

\* new_value after the "LLM returns arrays/objects as JSON strings" step
ParseJsonString(new_value) ==
  IF /\ new_value.type = "str"
     /\ Len(new_value.val) = 1
     /\ Len(Chars[new_value.val[1]]) > 0
     /\ Chars[new_value.val[1]][1] \in {"[", "{"}
     /\ new_value.val[1] \in DOMAIN JsonLoads
  THEN JsonLoads[new_value.val[1]]
  ELSE new_value

\* len(x) raises TypeError for these JSON types
NoLen == {"null", "int", "float", "bool"}

\* variant of SetIndex that inserts v before element i (list.insert)
SetIndex_Insert(items, i, v) ==
  [k \in 1..(Len(items) + 1) |->
     IF k <= i THEN items[k] ELSE IF k = i + 1 THEN v ELSE items[k - 1]]

\* lst[i] = v on a list (i from 0)
SetIndex(items, i, v) == [items EXCEPT ![i + 1] = v]

\* data with item index of data[array_name] replaced by the dict rec
WithItem(data, array_name, index, rec) ==
  Done([data EXCEPT ![array_name] =
          JList(SetIndex(@.val, index, JDict(rec)))])

\* variant of update_parsed without the requirement of an index and a field
update_parsed_NoFieldRequired(data, t, new_value) ==
  IF ~t.ok THEN Raise("ValueError", data)
  ELSE IF t.array_name \notin DOMAIN data THEN Raise("KeyError", data)
  ELSE Done(data)

\* apply_single_update after parse_target_path returned t
update_parsed(data, t, new_value) ==
  IF ~t.ok THEN Raise("ValueError", data)
  ELSE IF t.index = <<>> \/ t.field_name = <<>> THEN Raise("ValueError", data)
  ELSE IF t.array_name \notin DOMAIN data THEN Raise("KeyError", data)
  ELSE IF data[t.array_name].type \in NoLen THEN Raise("TypeError", data)
  ELSE IF t.index[1] >= Len(data[t.array_name].val) THEN Raise("IndexError", data)
  ELSE
    LET item == data[t.array_name].val[t.index[1] + 1] IN
    IF Len(t.field_name) > 1
    THEN \* nested array access, e.g. equipment[0].predecessors[0]
      IF item.type \in NoLen THEN Raise("TypeError", data)
      ELSE IF t.field_name[2] \notin DOMAIN item.val[1] THEN Raise("KeyError", data)
      ELSE IF item.val[1][t.field_name[2]].type # "list" THEN Raise("TypeError", data)
      ELSE IF IntOf(t.field_name[4]) >= Len(item.val[1][t.field_name[2]].val)
      THEN Raise("IndexError", data)
      ELSE WithItem(data, t.array_name, t.index[1],
                    [item.val[1] EXCEPT ![t.field_name[2]] =
                       JList(SetIndex(@.val, IntOf(t.field_name[4]),
                                      ParseJsonString(new_value)))])
    ELSE \* regular field access
      IF item.type # "dict" THEN Raise("AttributeError", data)
      ELSE WithItem(data, t.array_name, t.index[1],
                    SetItem(item.val[1], t.field_name[1], ParseJsonString(new_value)))

apply_single_update(data, target_path, new_value) ==
  update_parsed(data, parse_target_path(target_path), new_value)

\* variant of add_parsed that creates the array when the document lacks it
add_parsed_CreateMissing(data, t, new_item) ==
  IF ~t.ok THEN Raise("ValueError", data)
  ELSE IF t.index # <<>> \/ t.field_name # <<>> THEN Raise("ValueError", data)
  ELSE IF t.array_name \notin DOMAIN data
  THEN Done([x \in DOMAIN data \cup {t.array_name} |->
               IF x = t.array_name THEN JList(<<new_item>>) ELSE data[x]])
  ELSE IF data[t.array_name].type # "list" THEN Raise("TypeError", data)
  ELSE Done([data EXCEPT ![t.array_name] = JList(Append(@.val, new_item))])

\* add_to_array after parse_target_path returned t
add_parsed(data, t, new_item) ==
  IF ~t.ok THEN Raise("ValueError", data)
  ELSE IF t.index # <<>> \/ t.field_name # <<>> THEN Raise("ValueError", data)
  ELSE IF t.array_name \notin DOMAIN data THEN Raise("KeyError", data)
  ELSE IF data[t.array_name].type # "list" THEN Raise("TypeError", data)
  ELSE Done([data EXCEPT ![t.array_name] = JList(Append(@.val, new_item))])

add_to_array(data, target_path, new_item) ==
  add_parsed(data, parse_target_path(target_path), new_item)

\* identify-tool-files/reference-snapshot.json
ReferenceSnapshot ==
  [ demands |-> JList(<< JDict([demandId |-> JStr("R1")]),
                         JDict([demandId |-> JStr("R2")]) >>) ]

load_reference_data(field_name) ==
  IF field_name \notin DOMAIN ReferenceSnapshot
  THEN [ok |-> FALSE, err |-> "KeyError", value |-> JNull]
  ELSE [ok |-> TRUE, err |-> "", value |-> ReferenceSnapshot[field_name]]

\* target_path is used as the key itself: the path string is a key of the
\* document only when it is one bare name
replace_with_reference_data(data, target_path, new_value) ==
  IF new_value # JStr("USE_REFERENCE_DATA") THEN Raise("ValueError", data)
  ELSE IF ~(Len(target_path) = 1 /\ target_path[1] \in DOMAIN data)
  THEN Raise("KeyError", data)
  ELSE IF data[target_path[1]].type # "list" THEN Raise("TypeError", data)
  ELSE IF ~load_reference_data(target_path[1]).ok
  THEN Raise(load_reference_data(target_path[1]).err, data)
  ELSE Done([data EXCEPT ![target_path[1]] =
               load_reference_data(target_path[1]).value])

\* all(item.get(k) == v for k, v in item_to_remove.items())
Matches(item, item_to_remove) ==
  /\ item.type = "dict"
  /\ \A k \in DOMAIN item_to_remove.val[1] :
       Get(item.val[1], k) = item_to_remove.val[1][k]

\* the indices (from 1) of the items of array that item_to_remove matches
Hits(array, item_to_remove) ==
  {i \in DOMAIN array : Matches(array[i], item_to_remove)}

\* variant of remove_parsed that removes the last matching item
remove_parsed_LastMatch(data, t, item_to_remove) ==
  IF ~t.ok THEN Raise("ValueError", data)
  ELSE IF t.array_name \notin DOMAIN data THEN Raise("KeyError", data)
  ELSE IF t.index # <<>>
  THEN
    IF data[t.array_name].type \in NoLen THEN Raise("TypeError", data)
    ELSE IF t.index[1] >= Len(data[t.array_name].val) THEN Raise("IndexError", data)
    ELSE Done([data EXCEPT ![t.array_name] = JList(Pop(@.val, t.index[1]))])
  ELSE
    IF data[t.array_name].type # "list" THEN Raise("TypeError", data)
    ELSE IF item_to_remove.type # "dict" THEN Raise("TypeError", data)
    ELSE IF Hits(data[t.array_name].val, item_to_remove) = {}
    THEN Raise("ValueError", data)
    ELSE Done([data EXCEPT ![t.array_name] =
                 JList(Pop(@.val,
                           (CHOOSE h \in Hits(@.val, item_to_remove) :
                              \A g \in Hits(@.val, item_to_remove) : h >= g) - 1))])

\* remove_from_array after parse_target_path returned t
remove_parsed(data, t, item_to_remove) ==
  IF ~t.ok THEN Raise("ValueError", data)
  ELSE IF t.array_name \notin DOMAIN data THEN Raise("KeyError", data)
  ELSE IF t.index # <<>>
  THEN \* remove that specific index
    IF data[t.array_name].type \in NoLen THEN Raise("TypeError", data)
    ELSE IF t.index[1] >= Len(data[t.array_name].val) THEN Raise("IndexError", data)
    ELSE Done([data EXCEPT ![t.array_name] = JList(Pop(@.val, t.index[1]))])
  ELSE \* remove the first item matching item_to_remove
    IF data[t.array_name].type # "list" THEN Raise("TypeError", data)
    ELSE IF item_to_remove.type # "dict" THEN Raise("TypeError", data)
    ELSE IF Hits(data[t.array_name].val, item_to_remove) = {}
    THEN Raise("ValueError", data)
    ELSE Done([data EXCEPT ![t.array_name] =
                 JList(Pop(@.val,
                           (CHOOSE h \in Hits(@.val, item_to_remove) :
                              \A g \in Hits(@.val, item_to_remove) : h <= g) - 1))])

remove_from_array(data, target_path, item_to_remove) ==
  remove_parsed(data, parse_target_path(target_path), item_to_remove)

RECURSIVE apply_additional_updates(_, _, _)

\* the rest of the loop over the additional updates once update i has
\* returned r
next_update(r, additional_updates, i) ==
  IF ~r.ok THEN r
  ELSE apply_additional_updates(r.data, additional_updates, i + 1)

\* the additional updates from update i on, applied in order until one raises
apply_additional_updates(data, additional_updates, i) ==
  IF i > Len(additional_updates) THEN Done(data)
  ELSE next_update(apply_single_update(data,
                                       additional_updates[i].val[1].target_path.val,
                                       additional_updates[i].val[1].new_value),
                   additional_updates, i)

\* the branch of apply_correction for the action of the proposal
apply_action(data, proposal) ==
  IF proposal.action = JStr("manual_intervention_required") THEN Done(data)
  ELSE IF proposal.action = JStr("update_field")
  THEN IF proposal.new_value = JStr("USE_REFERENCE_DATA")
       THEN replace_with_reference_data(data, proposal.target_path.val,
                                        proposal.new_value)
       ELSE apply_single_update(data, proposal.target_path.val, proposal.new_value)
  ELSE IF proposal.action = JStr("add_to_array")
  THEN IF proposal.new_value.type # "dict" THEN Raise("TypeError", data)
       ELSE add_to_array(data, proposal.target_path.val, proposal.new_value)
  ELSE IF proposal.action = JStr("remove_from_array")
  THEN remove_from_array(data, proposal.target_path.val, proposal.current_value)
  ELSE Raise("ValueError", data)

\* variant of apply_updates that applies the additional updates also for
\* manual intervention
apply_updates_EvenManual(main, proposal) ==
  IF main.ok /\ proposal.additional_updates.type = "list"
  THEN apply_additional_updates(main.data, proposal.additional_updates.val, 1)
  ELSE main

\* the additional updates of the proposal, applied to what its action left
\* (not for manual intervention)
apply_updates(main, proposal) ==
  IF /\ main.ok
     /\ proposal.action # JStr("manual_intervention_required")
     /\ proposal.additional_updates.type = "list"
  THEN apply_additional_updates(main.data, proposal.additional_updates.val, 1)
  ELSE main

\* variant of save_snapshot that writes the document as the failing update
\* found it
save_snapshot_Partial(data, updated) == updated

\* snapshot-data.json is written only at the end, so an exception leaves
\* the file as it was
save_snapshot(data, updated) ==
  IF updated.ok THEN updated ELSE Raise(updated.err, data)

\* apply_correction on the loaded document: data of the result is what
\* snapshot-data.json holds afterwards
apply_correction(data, correction_proposal) ==
  save_snapshot(data,
                apply_updates(apply_action(data, correction_proposal.correction_proposal.val[1]),
                              correction_proposal.correction_proposal.val[1]))

\* ------------------------------------------------------------------------
\* The Proposer's possible answers (bounded input set)
\* ------------------------------------------------------------------------

\* the envelope generate_correction_llm.py puts around the LLM's proposal
Response(cp) ==
  [ iteration |-> JInt(1),
    snapshot_id |-> JStr("A"),
    original_error |->
      JDict([level |-> JStr("ERROR"), message |-> JStr("Duplicate demand IDs found: D1")]),
    error_analyzed |->
      JDict([ search_mode |-> JStr("value"), search_value |-> JStr("D1"),
              error_type |-> JStr("DUPLICATE_ID"), results_count |-> JInt(2) ]),
    correction_proposal |-> cp ]

Patch(action, target_path, new_value, reasoning) ==
  JDict([ action |-> action, target_path |-> target_path,
          current_value |-> JMissing, new_value |-> new_value,
          reasoning |-> reasoning, additional_updates |-> JList(<<>>) ])

FieldPath == <<"demands", "[", "1", "]", ".", "demandId">>

IndexPath == <<"demands", "[", "1", "]">>

BarePath == <<"demands">>

\* answers that satisfy the Pydantic schema
SchemaValidResponses ==
  { Response(Patch(JStr("update_field"), JPath(FieldPath), JStr("D1_2"), JStr("unique id"))),
    Response(Patch(JStr("update_field"), JPath(BarePath), JStr("D1_2"), JStr("unique id"))),
    Response(Patch(JStr("delete_record"), JPath(IndexPath), JNull, JStr("drop duplicate"))) }

\* answers that violate the Pydantic schema
SchemaInvalidResponses ==
  { Response(Patch(JStr("update_field"), JPath(FieldPath), JStr("D1_2"), JMissing)),
    [ Response(Patch(JStr("add_to_array"), JPath(IndexPath), JStr("D1_2"), JStr("new record")))
        EXCEPT !.iteration = JMissing ] }

ProposerResponses == SchemaValidResponses \cup SchemaInvalidResponses

\* ------------------------------------------------------------------------
\* apply_correction.py: main
\* ------------------------------------------------------------------------

\* validate_proposal_schema: TRUE iff LLMCorrectionResponse(**proposal)
\* raises no ValidationError
validate_proposal_schema(correction_proposal) ==
  LLMCorrectionResponse(correction_proposal)

\* the last line of the traceback an uncaught exception leaves on stderr
ApplyStderr ==
     ("ValueError" :>
        "ValueError: update_field action requires full path with index and field: demands")
  @@ ("KeyError" :> "KeyError: \"Array 'orders' not found in snapshot data\"")
  @@ ("IndexError" :>
        "IndexError: Index 7 out of range for array 'demands' (length: 2)")
  @@ ("TypeError" :> "TypeError: 'workers' is not an array")
  @@ ("AttributeError" :>
        "AttributeError: 'NoneType' object has no attribute 'get'")
  @@ ("FileNotFoundError" :>
        "FileNotFoundError: No iteration folders with llm_correction_proposal.json found")

\* backup_files_to_iteration: snapshot-data.json is copied into the
\* iteration folder, over the copy a previous run left there
backup_files_to_iteration(data) == FileOf(data)

\* what the process leaves once apply_correction has returned r
ExitOf(r, data) ==
  [ returncode |-> IF r.ok THEN 0 ELSE 1,
    stderr |-> IF r.ok THEN "" ELSE ApplyStderr[r.err],
    data |-> r.data, backup |-> backup_files_to_iteration(data) ]

\* variant of ApplyMain that applies the stored proposal without
\* validate_proposal_schema
ApplyMain_NoValidation(proposal, data, backup) ==
  IF proposal = None
  THEN [ returncode |-> 1, stderr |-> ApplyStderr["FileNotFoundError"],
         data |-> data, backup |-> backup ]
  ELSE ExitOf(apply_correction(data, proposal), data)

\* one run of the tool: proposal is llm_correction_proposal.json of the
\* latest iteration (None: no iteration holds one), data is
\* snapshot-data.json and backup the copy in the iteration folder; returns
\* the exit code, stderr and the two files as the run leaves them
ApplyMain(proposal, data, backup) ==
  IF proposal = None
  THEN [ returncode |-> 1, stderr |-> ApplyStderr["FileNotFoundError"],
         data |-> data, backup |-> backup ]
  ELSE IF ~validate_proposal_schema(proposal)
  THEN [ returncode |-> 1, stderr |-> "",
         data |-> data, backup |-> backup_files_to_iteration(data) ]
  ELSE ExitOf(apply_correction(data, proposal), data)

\* ------------------------------------------------------------------------
\* Documents and stored proposals (bounded input sets)
\* ------------------------------------------------------------------------

Demand(id) == JDict([demandId |-> JStr(id)])

\* two demands with the same id, one equipment with a nested array
DupDoc ==
  [ demands |-> JList(<< Demand("D1"), Demand("D1") >>),
    equipment |->
      JList(<< JDict([ id |-> JStr("E1"),
                       predecessors |-> JList(<< JStr("E0"), JStr("E9") >>) ]) >>) ]

\* an empty collection and a top-level value that is no array
EmptyDoc == [ demands |-> JList(<<>>), workers |-> JNull ]

\* a collection holding a null, a record without the field note and a
\* record whose field note is null
MixedDoc ==
  [ demands |-> JList(<< JNull,
                         JDict([demandId |-> JStr("D1"), note |-> JStr("x")]),
                         Demand("D1"),
                         JDict([demandId |-> JStr("D1"), note |-> JNull]) >>) ]

PatchDocs == { DupDoc, EmptyDoc, MixedDoc }

NestedPath == <<"equipment", "[", "0", "]", ".", "predecessors", "[", "1", "]">>

NewlinePath == <<"demands", "[", "1", "]", ".", "demandId", "\n">>

UnknownPath == <<"orders", "[", "0", "]", ".", "orderId">>

OutOfRangePath == <<"demands", "[", "3", "]", ".", "demandId">>

NestedOutOfRangePath ==
  <<"equipment", "[", "0", "]", ".", "predecessors", "[", "2", "]">>

NotArrayPath == <<"demands", "[", "1", "]", ".", "demandId", "[", "0", "]">>

MalformedPath == <<"demands", "[">>

Update(target_path, new_value) ==
  JDict([ target_path |-> JPath(target_path), current_value |-> JNull,
          new_value |-> new_value ])

PatchOf(action, target_path, current_value, new_value, additional_updates) ==
  Response(JDict([ action |-> JStr(action), target_path |-> JPath(target_path),
                   current_value |-> current_value, new_value |-> new_value,
                   reasoning |-> JStr("see analysis"),
                   additional_updates |-> JList(additional_updates) ]))

NewValues ==
  { JStr("D1_2"), JStr("[\"E7\"]"), JStr("[draft"), JStr("USE_REFERENCE_DATA") }

UpdateFieldProposals ==
  { PatchOf("update_field", path, JMissing, v, <<>>) :
      path \in { FieldPath, NestedPath, BarePath, IndexPath, NewlinePath,
                 UnknownPath, OutOfRangePath, NestedOutOfRangePath,
                 NotArrayPath, MalformedPath, <<"workers">> },
      v \in NewValues }

\* update_field proposals that carry additional updates
ChainedProposals ==
  { PatchOf("update_field", FieldPath, JMissing, JStr("D1_2"),
            << Update(NestedPath, JStr("USE_REFERENCE_DATA")) >>),
    PatchOf("update_field", FieldPath, JMissing, JStr("D1_2"),
            << Update(NestedPath, JStr("E7")), Update(OutOfRangePath, JStr("D1_2")) >>),
    PatchOf("update_field", NestedPath, JMissing, JStr("E7"),
            << Update(<<"equipment", "[", "0", "]", ".", "predecessors">>,
                      JStr("[\"E7\"]")) >>),
    PatchOf("update_field", BarePath, JMissing, JStr("USE_REFERENCE_DATA"),
            << Update(FieldPath, JStr("D1_2")) >>),
    PatchOf("add_to_array", BarePath, JMissing, Demand("D3"),
            << Update(<<"demands", "[", "0", "]", ".", "demandId">>, JStr("D1_2")) >>),
    PatchOf("remove_from_array", IndexPath, JMissing, JNull,
            << Update(<<"orders", "[", "0", "]", ".", "orderId">>, JStr("D1_2")) >>) }

AddToArrayProposals ==
  { PatchOf("add_to_array", path, JMissing, v, <<>>) :
      path \in { BarePath, IndexPath, <<"orders">>, <<"workers">> },
      v \in { Demand("D3"), JStr("D1_2") } }

RemoveFromArrayProposals ==
  { PatchOf("remove_from_array", path, cur, JMissing, <<>>) :
      path \in { BarePath, IndexPath, FieldPath, <<"demands", "[", "3", "]">>,
                 <<"orders">>, <<"workers">> },
      cur \in { Demand("D1"), Demand("D7"),
                JDict([demandId |-> JStr("D1"), note |-> JNull]),
                JMissing } }

ManualProposals ==
  { PatchOf("manual_intervention_required", FieldPath, JMissing, JStr("D1_2"),
            << Update(NestedPath, JStr("E7")) >>),
    PatchOf("manual_intervention_required", <<"orders">>, JMissing, JNull, <<>>) }

\* every stored proposal the apply tool is run on
PatchProposals ==
  UpdateFieldProposals \cup ChainedProposals \cup AddToArrayProposals
    \cup RemoveFromArrayProposals \cup ManualProposals
    \cup SchemaValidResponses \cup SchemaInvalidResponses

\* the stored proposals of the runs under the executor
ApplyProposals ==
  { PatchOf("update_field", FieldPath, JMissing, JStr("D1_2"), <<>>),
    PatchOf("add_to_array", BarePath, JMissing, Demand("D3"), <<>>),
    PatchOf("update_field", OutOfRangePath, JMissing, JStr("D1_2"), <<>>),
    PatchOf("update_field", UnknownPath, JMissing, JStr("D1_2"), <<>>),
    PatchOf("update_field", NotArrayPath, JMissing, JStr("D1_2"), <<>>),
    PatchOf("update_field", MalformedPath, JMissing, JStr("D1_2"), <<>>),
    PatchOf("manual_intervention_required", FieldPath, JMissing, JStr("D1_2"),
            << Update(NestedPath, JStr("E7")) >>) }
    \cup SchemaInvalidResponses

\* the proposals a later iteration may store
FollowUpProposals ==
  { PatchOf("update_field", FieldPath, JMissing, JStr("D1_2"), <<>>),
    PatchOf("update_field", BarePath, JMissing, JStr("USE_REFERENCE_DATA"), <<>>),
    PatchOf("update_field", UnknownPath, JMissing, JStr("D1_2"), <<>>),
    PatchOf("add_to_array", BarePath, JMissing, Demand("D3"), <<>>),
    PatchOf("add_to_array", <<"orders">>, JMissing, Demand("D3"), <<>>),
    PatchOf("remove_from_array", BarePath, Demand("D1"), JMissing, <<>>) }

\* ------------------------------------------------------------------------
\* Tool outcomes (bounded input set)
\* ------------------------------------------------------------------------

\* what a failing tool process can leave on stderr ("" when it only prints
\* to stdout before sys.exit(1))
StderrTexts ==
  { "",
    "Snapshot nicht gefunden",
    "Snapshot does not exist",
    "Authentication failed",
    "ValueError: CLIENT_SECRET not found in environment variables",
    "FileNotFoundError: last_search_results.json not found in A",
    "IndexError: Index 7 out of range for array 'demands' (length: 2)" }

FailureResults == { ProcessResult(1, e) : e \in StderrTexts } \cup { TimeoutResult }

SuccessResult == ProcessResult(0, "")

ToolResults == { SuccessResult } \cup FailureResults

\* ------------------------------------------------------------------------
\* State
\* ------------------------------------------------------------------------

VARIABLES
  pc,               \* "idle", "run" (between tool invocations),
                    \* "gate_llm" (gate process waiting for the Proposer), "done"
  pipeline_name,    \* execute_pipeline's argument
  snapshot_id,      \* execute_pipeline's argument ("" for None)
  iteration,        \* execute_pipeline's loop counter
  step_index,       \* position of _execute_pipeline's `for step` loop
  attempt,          \* _execute_pipeline's attempt counter of the current step
  results,          \* _execute_pipeline's results list
  last_result,      \* the dict execute_pipeline returns (None before)
  validation_file,  \* {snapshot_id}/snapshot-validation.json
  proposal_file,    \* llm_correction_proposal.json of the latest iteration
  current_proposal, \* validate_with_retry's current_proposal
  retry_count,      \* validate_with_retry's retry_count
  gate_result,      \* what _run_tool builds from the exited gate process
  runs,             \* history: number of _execute_pipeline calls
  calls,            \* history: the finished tool invocations of this run,
                    \* each [index of the step, success]
  failures,         \* history: failed tool invocations of this call
  last_error,       \* history: error_msg of the latest attempt of the current
                    \* step if it failed, "" otherwise
  gate_starts,      \* history: gate processes started in this run
  requests,         \* history: Proposer re-requests of the current gate process
  exhausted,        \* history: gate processes of this run that hit sys.exit(1)
                    \* after max_retries
  failed_runs,      \* history: _execute_pipeline calls that returned
                    \* success = False
  data_file,        \* {snapshot_id}/snapshot-data.json: the document
  backup_file,      \* snapshot-data.json in the latest iteration folder
  apply_log,        \* history: the last two runs of the apply tool
  pre_patch,        \* history: the document as it was before the patch of
                    \* the latest iteration was first applied
  apply_runs,       \* history: number of runs of the apply tool
  remote_file,      \* the snapshot's dataJson as the server holds it
  upload_log,       \* history: the runs of update_snapshot.py for the current
                    \* step: the server's copy before the first of them,
                    \* whether the server accepted a PUT, how the last ended
  iter_files,       \* the iteration-N folders of the snapshot folder: the
                    \* set of file names in each
  last_write,       \* history: the latest write of a tool into an iteration
                    \* folder: the tool, the folder, the files, the highest
                    \* folder before the run, whether the run created the folder
  argv,             \* sys.argv[1:] of identify_snapshot.py
  config_file,      \* identify-tool-files/config.json
  reference_file,   \* identify-tool-files/reference-snapshot.json
  search_results,   \* history: search mode, search value and results of the
                    \* latest run of identify_snapshot.py's main (None
                    \* before the first and when main returned early)
  search_file,      \* last_search_results.json
  search_runs,      \* the runs of identify_snapshot.py so far
  current_snapshot, \* the id in runtime-files/current_snapshot.txt ("" when
                    \* the file is missing)
  accessed          \* history: the snapshot folders the tools of this call
                    \* have opened, each [tool, id]

vars ==
  << pc, pipeline_name, snapshot_id, iteration, step_index, attempt, results,
     last_result, validation_file, proposal_file, current_proposal,
     retry_count, gate_result, runs, calls, failures, last_error, gate_starts,
     requests, exhausted, failed_runs, data_file, backup_file, apply_log,
     pre_patch, apply_runs, remote_file, upload_log, iter_files, last_write,
     argv, config_file, reference_file, search_results, search_file,
     search_runs, current_snapshot, accessed >>

ambientVars == << current_snapshot, accessed >>

storeVars == << remote_file, upload_log >>

iterVars == << iter_files, last_write >>

searchVars ==
  << argv, config_file, reference_file, search_results, search_file,
     search_runs >>

applyVars == << data_file, backup_file, apply_log, pre_patch, apply_runs >>

gateVars == << current_proposal, retry_count, gate_result >>

steps == SP_PIPELINES[pipeline_name]

step == steps[step_index]

GateStep == "validate_correction_schema_llm"

\* validate_with_retry's default max_retries
gate_max_retries == 5

\* the agent before execute_pipeline is called
InitExecutor ==
  /\ pc = "idle"
  /\ pipeline_name = "full_correction"
  /\ snapshot_id = ""
  /\ iteration = 0
  /\ step_index = 1
  /\ attempt = 0
  /\ results = <<>>
  /\ last_result = None
  /\ current_proposal = None
  /\ retry_count = 0
  /\ gate_result = None
  /\ runs = 0
  /\ calls = <<>>
  /\ failures = 0
  /\ last_error = ""
  /\ gate_starts = 0
  /\ requests = 0
  /\ exhausted = 0
  /\ failed_runs = 0

\* no run of the apply tool has happened
InitApply ==
  /\ backup_file = NoFile
  /\ apply_log = <<>>
  /\ pre_patch = NoFile
  /\ apply_runs = 0

\* download_snapshot.py has written the id of the snapshot into
\* current_snapshot.txt
InitAmbient ==
  /\ current_snapshot = "A"
  /\ accessed = {}

\* the server holds the document as it was downloaded; no iteration folder,
\* no search and no upload yet
InitFiles ==
  /\ remote_file = data_file
  /\ upload_log = [ before |-> data_file, accepted |-> FALSE, cause |-> "" ]
  /\ iter_files = <<>>
  /\ last_write = [ tool |-> "", iteration |-> 0, files |-> {},
                    latest |-> 0, created |-> FALSE ]
  /\ argv = <<>>
  /\ config_file = NoFile
  /\ reference_file = NoFile
  /\ search_results = None
  /\ search_file = NoFile
  /\ search_runs = 0
  /\ InitAmbient

Init ==
  /\ InitExecutor
  /\ validation_file \in { NoFile } \cup { FileOf(d) : d \in ValidationData }
  /\ proposal_file = None
  /\ data_file = DupDoc
  /\ InitApply
  /\ InitFiles

\* ------------------------------------------------------------------------
\* sp_agent.py: execute_pipeline and _execute_pipeline
\* ------------------------------------------------------------------------

\* execute_pipeline is called: iteration 1 starts and _execute_pipeline
\* enters its step loop
execute_pipeline(p, sid) ==
  /\ pc = "idle"
  /\ pc' = "run"
  /\ pipeline_name' = p
  /\ snapshot_id' = sid
  /\ iteration' = 1
  /\ runs' = 1
  /\ UNCHANGED << step_index, attempt, results, last_result, validation_file,
                  proposal_file, gateVars, calls, failures, last_error,
                  gate_starts, requests, exhausted, failed_runs >>
  /\ UNCHANGED applyVars
  /\ UNCHANGED << storeVars, iterVars, searchVars, ambientVars >>

\* variant of StepOutcome whose retry loop allows one attempt more
StepOutcome_FourAttempts(tool_result, a) ==
  IF tool_result.success
  THEN IF step_index < Len(steps) THEN "next_step" ELSE "run_ok"
  ELSE IF IsNonRetryable(ErrorMsg(tool_result)) \/ a > max_retries + 1
       THEN "run_failed"
       ELSE "retry"

\* variant of StepOutcome whose retry loop ends one attempt early
StepOutcome_TwoAttempts(tool_result, a) ==
  IF tool_result.success
  THEN IF step_index < Len(steps) THEN "next_step" ELSE "run_ok"
  ELSE IF IsNonRetryable(ErrorMsg(tool_result)) \/ a >= max_retries
       THEN "run_failed"
       ELSE "retry"

\* variant of StepOutcome that goes on to the next step after a terminal
\* failure instead of returning
StepOutcome_NoHalt(tool_result, a) ==
  IF tool_result.success
  THEN IF step_index < Len(steps) THEN "next_step" ELSE "run_ok"
  ELSE IF IsNonRetryable(ErrorMsg(tool_result)) \/ a > max_retries
       THEN IF step_index < Len(steps) THEN "next_step" ELSE "run_failed"
       ELSE "retry"

\* what _execute_pipeline does once _run_tool has returned tool_result for
\* attempt number a of the current step: "next_step", "retry" (sleep one
\* second, invoke again), "run_failed" (return success = False) or "run_ok"
StepOutcome(tool_result, a) ==
  IF tool_result.success
  THEN IF step_index < Len(steps) THEN "next_step" ELSE "run_ok"
  ELSE IF IsNonRetryable(ErrorMsg(tool_result)) \/ a > max_retries
       THEN "run_failed"
       ELSE "retry"

\* StepOutcome followed by execute_pipeline's loop body when the run has
\* returned: "next_step", "retry", "next_run", "return_ok" or
\* "return_failed"; run_ok and run_failed are the dicts _execute_pipeline
\* would return
Outcome(tool_result, a, run_ok, run_failed) ==
  LET so == StepOutcome(tool_result, a) IN
  CASE so = "run_ok" ->
         IF LoopBreaks(pipeline_name, run_ok, iteration)
         THEN "return_ok" ELSE "next_run"
    [] so = "run_failed" ->
         IF LoopBreaks(pipeline_name, run_failed, iteration)
         THEN "return_failed" ELSE "next_run"
    [] OTHER -> so

\* the rest of the retry loop, of the step loop and of the convergence loop
\* after the tool invocation numbered a of the current step returned
\* tool_result, up to the next tool invocation or the return; gs and ex are
\* the gate history of this run, vfile the validation file as the tool
\* left it
AfterTool(tool_result, a, gs, ex, vfile, storage_fails) ==
  LET error_msg == ErrorMsg(tool_result)
      ok_results ==
        Append(results, [ step |-> step, success |-> TRUE, attempts |-> a,
                          error |-> None ])
      failed_results ==
        Append(results, [ step |-> step, success |-> FALSE, attempts |-> a,
                          error |-> JStr(error_msg) ])
      run_ok ==
        [ success |-> TRUE, pipeline |-> pipeline_name,
          completed_steps |-> ok_results,
          final_validation |->
            FinalValidationStatus(pipeline_name, snapshot_id, vfile, storage_fails) ]
      run_failed ==
        [ success |-> FALSE, pipeline |-> pipeline_name,
          completed_steps |-> failed_results,
          failed_at |-> step, error |-> error_msg,
          recovery_suggestion |-> _suggest_recovery(step, tool_result) ]
      cs == Append(calls, [index |-> step_index, success |-> tool_result.success])
  IN
  \E kind \in { Outcome(tool_result, a, run_ok, run_failed) } :
  /\ pc' = IF kind \in {"return_ok", "return_failed"} THEN "done" ELSE "run"
  /\ iteration' = IF kind = "next_run" THEN iteration + 1 ELSE iteration
  /\ runs' = IF kind = "next_run" THEN runs + 1 ELSE runs
  /\ step_index' =
       CASE kind = "next_step" -> step_index + 1
         [] kind = "next_run" -> 1
         [] OTHER -> step_index
  /\ attempt' = IF kind \in {"next_step", "next_run"} THEN 0 ELSE a
  /\ results' =
       CASE kind \in {"next_step", "return_ok"} -> ok_results
         [] kind = "return_failed" -> failed_results
         [] kind = "next_run" -> <<>>
         [] OTHER -> results
  /\ last_result' =
       CASE kind = "return_ok" -> run_ok @@ [total_iterations |-> iteration]
         [] kind = "return_failed" -> run_failed @@ [total_iterations |-> iteration]
         [] OTHER -> last_result
  /\ calls' = IF kind = "next_run" THEN <<>> ELSE cs
  /\ failures' = IF tool_result.success THEN failures ELSE failures + 1
  /\ last_error' =
       IF tool_result.success \/ kind = "next_run" THEN "" ELSE error_msg
  /\ gate_starts' = IF kind = "next_run" THEN 0 ELSE gs
  /\ exhausted' = IF kind = "next_run" THEN 0 ELSE ex
  /\ validation_file' = vfile
  /\ failed_runs' =
       IF StepOutcome(tool_result, a) = "run_failed"
       THEN failed_runs + 1 ELSE failed_runs

\* a tool result the environment may produce now
Possible(tool_result) ==
  /\ tool_result \in ToolResults
  /\ ~tool_result.success => failures < MaxFailures

\* one loop iteration of `while attempt <= max_retries` for validate_snapshot.
\* The process exits with 0 also when the validation service call fails
\* (validate_snapshot.py catches the exception): then the file is not written.
RunValidateSnapshot ==
  /\ pc = "run"
  /\ step = "validate_snapshot"
  /\ \E tool_result \in ToolResults :
     \E vfile \in IF tool_result.success
                  THEN { validation_file } \cup { FileOf(d) : d \in ValidationData }
                  ELSE { validation_file } :
     \E storage_fails \in IF tool_result.success /\ step_index = Len(steps)
                          THEN BOOLEAN ELSE { FALSE } :
       /\ Possible(tool_result)
       /\ AfterTool(tool_result, attempt + 1, gate_starts, exhausted,
                    vfile, storage_fails)
  /\ UNCHANGED << pipeline_name, snapshot_id, proposal_file, gateVars, requests >>
  /\ UNCHANGED applyVars
  /\ UNCHANGED << storeVars, iterVars, searchVars, ambientVars >>

\* one loop iteration of `while attempt <= max_retries` for a step whose tool
\* is seen as the executor sees it: a process with a return code and stderr
RunToolOf(tools) ==
  /\ pc = "run"
  /\ step \in tools
  /\ \E tool_result \in ToolResults :
       /\ Possible(tool_result)
       /\ AfterTool(tool_result, attempt + 1, gate_starts, exhausted,
                    validation_file, FALSE)
  /\ UNCHANGED << pipeline_name, snapshot_id, proposal_file, gateVars, requests >>
  /\ UNCHANGED applyVars
  /\ UNCHANGED << storeVars, iterVars, searchVars, ambientVars >>

\* the retry loop for every tool but validate_snapshot
RunTool ==
  RunToolOf({ "identify_error_llm", "generate_correction_llm",
              "validate_correction_schema_llm", "apply_correction",
              "update_snapshot" })

\* one loop iteration for generate_correction_llm: on success the Proposer's
\* answer is saved as llm_correction_proposal.json
RunGenerateCorrection ==
  /\ pc = "run"
  /\ step = "generate_correction_llm"
  /\ \E tool_result \in ToolResults :
       /\ Possible(tool_result)
       /\ IF tool_result.success
          THEN proposal_file' \in ProposerResponses
          ELSE proposal_file' = proposal_file
       /\ AfterTool(tool_result, attempt + 1, gate_starts, exhausted,
                    validation_file, FALSE)
  /\ UNCHANGED << pipeline_name, snapshot_id, gateVars, requests >>
  /\ UNCHANGED applyVars
  /\ UNCHANGED << storeVars, iterVars, searchVars, ambientVars >>

\* the retry loop for identify_error_llm, apply_correction and update_snapshot
RunOtherTool ==
  RunToolOf({ "identify_error_llm", "apply_correction", "update_snapshot" })

\* ------------------------------------------------------------------------
\* validate_correction_schema_llm.py: the gate process
\* ------------------------------------------------------------------------

\* variant of GateValidate whose retry test admits one more request
GateValidate_SixthRequest(cur, rc) ==
  IF validate_correction_proposal(cur)
  THEN /\ pc' = "gate_exit"
       /\ gate_result' = SuccessResult
       /\ proposal_file' = IF rc > 0 THEN cur ELSE proposal_file
       /\ current_proposal' = cur
       /\ retry_count' = rc
       /\ UNCHANGED << requests, exhausted >>
  ELSE IF rc <= gate_max_retries
  THEN /\ pc' = "gate_llm"
       /\ current_proposal' = cur
       /\ retry_count' = rc + 1
       /\ requests' = requests + 1
       /\ UNCHANGED << gate_result, proposal_file, exhausted >>
  ELSE /\ pc' = "gate_exit"
       /\ gate_result' = ProcessResult(1, "")
       /\ current_proposal' = cur
       /\ retry_count' = rc + 1
       /\ exhausted' = exhausted + 1
       /\ UNCHANGED << requests, proposal_file >>

\* the body of validate_with_retry's while loop from the validation of
\* proposal cur with retry_count = rc, up to the next Proposer request or
\* the end of the process; the original proposal is proposal_file
GateValidate(cur, rc) ==
  IF validate_correction_proposal(cur)
  THEN \* return current_proposal; a corrected proposal overwrites the file
       /\ pc' = "gate_exit"
       /\ gate_result' = SuccessResult
       /\ proposal_file' = IF rc > 0 THEN cur ELSE proposal_file
       /\ current_proposal' = cur
       /\ retry_count' = rc
       /\ UNCHANGED << requests, exhausted >>
  ELSE IF rc + 1 <= gate_max_retries
  THEN \* retry_llm_with_schema_error is called with the invalid proposal
       /\ pc' = "gate_llm"
       /\ current_proposal' = cur
       /\ retry_count' = rc + 1
       /\ requests' = requests + 1
       /\ UNCHANGED << gate_result, proposal_file, exhausted >>
  ELSE \* "Max retries reached": sys.exit(1), nothing on stderr
       /\ pc' = "gate_exit"
       /\ gate_result' = ProcessResult(1, "")
       /\ current_proposal' = cur
       /\ retry_count' = rc + 1
       /\ exhausted' = exhausted + 1
       /\ UNCHANGED << requests, proposal_file >>

\* the executor invokes the gate step: main() of the gate process up to its
\* first Proposer request or its end
GateMain ==
  /\ pc = "run"
  /\ step = GateStep
  /\ attempt' = attempt + 1
  /\ gate_starts' = gate_starts + 1
  /\ IF proposal_file = None
     THEN \* no iteration folder holds a proposal: sys.exit(1)
          /\ pc' = "gate_exit"
          /\ gate_result' = ProcessResult(1, "")
          /\ UNCHANGED << proposal_file, current_proposal, retry_count,
                          requests, exhausted >>
     ELSE GateValidate(proposal_file, 0)
  /\ UNCHANGED << pipeline_name, snapshot_id, iteration, step_index, results,
                  last_result, validation_file, runs, calls, failures,
                  last_error, failed_runs >>
  /\ UNCHANGED applyVars
  /\ UNCHANGED << storeVars, iterVars, searchVars, ambientVars >>

\* the Proposer answers a re-request: the answer is saved as retry_{n}.json
\* and validated in the next loop iteration
GateProposerReturns ==
  /\ pc = "gate_llm"
  /\ \E response_data \in ProposerResponses :
       GateValidate(response_data, retry_count)
  /\ UNCHANGED << pipeline_name, snapshot_id, iteration, step_index, attempt,
                  results, last_result, validation_file, runs, calls,
                  failures, last_error, gate_starts, failed_runs >>
  /\ UNCHANGED applyVars
  /\ UNCHANGED << storeVars, iterVars, searchVars, ambientVars >>

\* retry_llm_with_schema_error raises (a missing input file, a failed LLM
\* call): the process ends with a traceback on stderr
GateProposerRaises ==
  /\ pc = "gate_llm"
  /\ failures < MaxFailures
  /\ pc' = "gate_exit"
  /\ gate_result' =
       ProcessResult(1, "FileNotFoundError: llm_identify_response.json not found in iteration-1")
  /\ UNCHANGED << pipeline_name, snapshot_id, iteration, step_index, attempt,
                  results, last_result, validation_file, proposal_file,
                  current_proposal, retry_count, runs, calls, failures,
                  last_error, gate_starts, requests, exhausted, failed_runs >>
  /\ UNCHANGED applyVars
  /\ UNCHANGED << storeVars, iterVars, searchVars, ambientVars >>

\* subprocess.run raises TimeoutExpired while the gate process is running
GateTimeout ==
  /\ pc = "gate_llm"
  /\ failures < MaxFailures
  /\ pc' = "gate_exit"
  /\ gate_result' = TimeoutResult
  /\ UNCHANGED << pipeline_name, snapshot_id, iteration, step_index, attempt,
                  results, last_result, validation_file, proposal_file,
                  current_proposal, retry_count, runs, calls, failures,
                  last_error, gate_starts, requests, exhausted, failed_runs >>
  /\ UNCHANGED applyVars
  /\ UNCHANGED << storeVars, iterVars, searchVars, ambientVars >>

\* _run_tool returns the gate's result to the retry loop
GateReturns ==
  /\ pc = "gate_exit"
  /\ AfterTool(gate_result, attempt, gate_starts, exhausted,
               validation_file, FALSE)
  /\ current_proposal' = None
  /\ retry_count' = 0
  /\ gate_result' = None
  /\ requests' = 0
  /\ UNCHANGED << pipeline_name, snapshot_id, proposal_file >>
  /\ UNCHANGED applyVars
  /\ UNCHANGED << storeVars, iterVars, searchVars, ambientVars >>

\* ------------------------------------------------------------------------
\* Runs of the apply tool
\* ------------------------------------------------------------------------

\* the run of the tool whose result is r, as apply_log keeps it
LogEntry(r) ==
  [ proposal |-> proposal_file, before |-> data_file, after |-> r.data,
    returncode |-> r.returncode, stderr |-> r.stderr ]

\* r is a run that applied the patch of the stored proposal
Patched(r) ==
  /\ r.returncode = 0
  /\ proposal_file.correction_proposal.val[1].action
       # JStr("manual_intervention_required")

\* what a run of the tool with result r leaves in the files and in the
\* history
ApplyFiles(r) ==
  /\ data_file' = r.data
  /\ backup_file' = r.backup
  /\ apply_log' = IF Len(apply_log) < 2
                  THEN Append(apply_log, LogEntry(r))
                  ELSE << apply_log[2], LogEntry(r) >>
  /\ pre_patch' = IF ~pre_patch.exists /\ Patched(r)
                  THEN FileOf(data_file) ELSE pre_patch
  /\ apply_runs' = apply_runs + 1

\* one loop iteration of `while attempt <= max_retries` for apply_correction
RunApplyCorrection ==
  /\ pc = "run"
  /\ step = "apply_correction"
  /\ \E r \in { ApplyMain(proposal_file, data_file, backup_file) } :
     \E tool_result \in { ProcessResult(r.returncode, r.stderr) } :
     /\ ~tool_result.success => failures < MaxFailures
     /\ AfterTool(tool_result, attempt + 1, gate_starts, exhausted,
                  validation_file, FALSE)
     /\ ApplyFiles(r)
  /\ UNCHANGED << pipeline_name, snapshot_id, proposal_file, gateVars, requests >>
  /\ UNCHANGED << storeVars, iterVars, searchVars, ambientVars >>

\* the retry loop for update_snapshot
RunUpdateSnapshot ==
  RunToolOf({ "update_snapshot" })

\* execute_pipeline has returned and the agent is called again: the locals
\* of the finished call are gone, the files stay
ReturnToCaller ==
  /\ pc = "done"
  /\ apply_runs < MaxApplies
  /\ pc' = "idle"
  /\ iteration' = 0
  /\ step_index' = 1
  /\ attempt' = 0
  /\ results' = <<>>
  /\ last_result' = None
  /\ runs' = 0
  /\ calls' = <<>>
  /\ failures' = 0
  /\ last_error' = ""
  /\ gate_starts' = 0
  /\ exhausted' = 0
  /\ failed_runs' = 0
  /\ UNCHANGED << pipeline_name, snapshot_id, validation_file, proposal_file,
                  gateVars, requests, applyVars >>
  /\ UNCHANGED << storeVars, iterVars, searchVars, ambientVars >>

\* execute_tool("apply_correction"): the tool is run once, outside a pipeline
execute_tool ==
  /\ pc = "idle"
  /\ apply_runs < MaxApplies
  /\ \E r \in { ApplyMain(proposal_file, data_file, backup_file) } :
       ApplyFiles(r)
  /\ UNCHANGED << pc, pipeline_name, snapshot_id, iteration, step_index,
                  attempt, results, last_result, validation_file,
                  proposal_file, gateVars, runs, calls, failures, last_error,
                  gate_starts, requests, exhausted, failed_runs >>
  /\ UNCHANGED << storeVars, iterVars, searchVars, ambientVars >>

\* identify_error_llm and generate_correction_llm have opened the next
\* iteration folder and stored its proposal there; the folder holds no
\* backup yet
NextIteration ==
  /\ pc = "idle"
  /\ apply_runs > 0
  /\ proposal_file' \in FollowUpProposals
  /\ backup_file' = NoFile
  /\ pre_patch' = NoFile
  /\ UNCHANGED << pc, pipeline_name, snapshot_id, iteration, step_index,
                  attempt, results, last_result, validation_file,
                  gateVars, runs, calls, failures, last_error,
                  gate_starts, requests, exhausted, failed_runs,
                  data_file, apply_log, apply_runs >>
  /\ UNCHANGED << storeVars, iterVars, searchVars, ambientVars >>

\* ------------------------------------------------------------------------
\* Specification
\* ------------------------------------------------------------------------

SnapshotIds == {"A", ""}

\* the executor and the convergence loop; every tool is a process of which
\* the executor sees the return code and stderr
Next ==
  \/ \E p \in PipelineNames, sid \in SnapshotIds : execute_pipeline(p, sid)
  \/ RunValidateSnapshot
  \/ RunTool

Spec == Init /\ [][Next]_vars

\* the executor running the analysis pipeline, whose last step is the gate,
\* with the gate process and the Proposer's answers in detail
GateNext ==
  \/ execute_pipeline("analyze_only", "A")
  \/ RunValidateSnapshot
  \/ RunOtherTool
  \/ RunGenerateCorrection
  \/ GateMain
  \/ GateProposerReturns
  \/ GateProposerRaises
  \/ GateTimeout
  \/ GateReturns

GateSpec == Init /\ [][GateNext]_vars

\* the executor running apply_and_upload, called again after it returned,
\* with the apply tool in detail
ApplyInit ==
  /\ InitExecutor
  /\ validation_file = NoFile
  /\ proposal_file \in ApplyProposals \cup { None }
  /\ data_file \in { DupDoc, EmptyDoc }
  /\ InitApply
  /\ InitFiles

ApplyNext ==
  \/ execute_pipeline("apply_and_upload", "A")
  \/ RunApplyCorrection
  \/ RunUpdateSnapshot
  \/ RunValidateSnapshot
  \/ ReturnToCaller

ApplySpec == ApplyInit /\ [][ApplyNext]_vars

\* the apply tool run on every document and stored proposal of the input
\* sets, iteration after iteration
PatchInit ==
  /\ InitExecutor
  /\ validation_file = NoFile
  /\ proposal_file \in PatchProposals
  /\ data_file \in PatchDocs
  /\ InitApply
  /\ InitFiles

PatchNext ==
  \/ execute_tool
  \/ NextIteration

PatchSpec == PatchInit /\ [][PatchNext]_vars

\* ------------------------------------------------------------------------
\* Properties of the executor and of the convergence loop (Spec)
\* ------------------------------------------------------------------------

\* execute_pipeline has returned success = False
Failed == pc = "done" /\ ~last_result.success

\* execute_pipeline has returned success = True
Succeeded == pc = "done" /\ last_result.success

\* number of finished invocations of the step at position i in this run
CallsOf(i) == Cardinality({ k \in DOMAIN calls : calls[k].index = i })

\* the failure message indicates the document-not-found condition
NotFoundText(e) ==
  In("Snapshot nicht gefunden", e) \/ In("Snapshot does not exist", e)

\* C1 (convergence bound): never more than 5 pipeline runs are started, and
\* a correction pipeline whose runs all succeed with a non-zero post-run
\* ERROR count returns after exactly 5 runs, reporting total_iterations = 5
\* and the remaining ERROR count.
C1_ConvergenceBound ==
  /\ runs <= 5
  /\ iteration = runs
  /\ ( /\ Succeeded
       /\ IsCorrectionPipeline(pipeline_name)
       /\ last_result.final_validation # None
       /\ last_result.final_validation.errors # 0 )
     => /\ runs = 5
        /\ last_result.total_iterations = 5
        /\ last_result.final_validation.errors =
             CountLevel(validation_file.data, "ERROR")

C1_Witness ==
  /\ Succeeded
  /\ last_result.final_validation # None
  /\ last_result.final_validation.errors # 0
  /\ runs = 5
  /\ last_result.total_iterations = 5

\* C2 (zero-error stop): a successful result with a validation status
\* reports the ERROR and WARNING counts of the validation file, is_valid
\* holds iff the ERROR count is zero whatever the WARNING count, the loop
\* returns with errors left only after run 5, and a further run starts only
\* when the run before left a non-zero ERROR count.
C2_ZeroErrorStop ==
  /\ (Succeeded /\ last_result.final_validation # None)
     => LET fv == last_result.final_validation IN
        /\ fv.errors = CountLevel(validation_file.data, "ERROR")
        /\ fv.warnings = CountLevel(validation_file.data, "WARNING")
        /\ fv.is_valid <=> (fv.errors = 0)
        /\ fv.errors = 0 \/ runs = 5
  /\ (pc = "run" /\ runs >= 2 /\ calls = <<>>)
     => CountLevel(validation_file.data, "ERROR") > 0

C2_Witness ==
  /\ Succeeded
  /\ last_result.final_validation # None
  /\ last_result.final_validation.errors = 0
  /\ last_result.final_validation.warnings > 0
  /\ last_result.final_validation.is_valid
  /\ runs = 1

\* C3 (failure stop): once a pipeline run has failed, execute_pipeline has
\* returned that failure (success = False, the failed step, its error, a
\* recovery suggestion, the iteration count) and no further run was started;
\* and a returned failure stems from exactly one failed run.
C3_FailureStop ==
  /\ failed_runs >= 1
     => /\ failed_runs = 1
        /\ Failed
        /\ last_result.failed_at = step
        /\ last_result.error = last_error
        /\ last_result.recovery_suggestion.error_type \in
             { "missing_prerequisite", "missing_file", "snapshot_not_found",
               "authentication_failed", "validation_error", "unknown" }
        /\ last_result.total_iterations = runs
        /\ last_result.completed_steps = results
        /\ ~results[Len(results)].success
  /\ Failed => failed_runs = 1

C3_Witness ==
  /\ Failed
  /\ failed_runs = 1
  /\ runs = 3
  /\ CountLevel(validation_file.data, "ERROR") > 0

\* C4 (retry ceiling): no step is invoked more than 3 times in a run, a step
\* that has succeeded is not invoked again, the recorded attempts are the
\* invocations made, a retry is pending only while fewer than 3 attempts
\* were made, and a step that ends with a retryable failure (a timeout
\* included) was invoked exactly 3 times.
C4_RetryCeiling ==
  /\ attempt <= 3
  /\ \A i \in 1..Len(steps) : CallsOf(i) <= 3
  /\ \A k \in DOMAIN calls :
       calls[k].success
         => \A j \in DOMAIN calls : j > k => calls[j].index # calls[k].index
  /\ \A i \in DOMAIN results :
       results[i].attempts = CallsOf(i) /\ results[i].attempts \in 1..3
  /\ (Failed /\ ~IsNonRetryable(last_result.error))
     => results[Len(results)].attempts = 3
  /\ ( /\ pc = "run"
       /\ calls # <<>>
       /\ ~calls[Len(calls)].success
       /\ ~IsNonRetryable(last_error) )
     => attempt \in 1..2

C4_Witness ==
  /\ Failed
  /\ last_result.error = "Tool-Ausfuehrung Timeout (>5min)"
  /\ results[Len(results)].attempts = 3
  /\ CallsOf(Len(results)) = 3

\* C5 (non-retryable short-circuit): after an attempt that failed with a
\* document-not-found message the pipeline has halted with that failure, the
\* failed invocation is the last one made, and a step whose first attempt
\* failed so was attempted exactly once.
C5_NonRetryableShortCircuit ==
  NotFoundText(last_error)
    => /\ Failed
       /\ last_result.error = last_error
       /\ last_result.failed_at = step
       /\ calls[Len(calls)] = [index |-> step_index, success |-> FALSE]
       /\ Len(results) = step_index
       /\ results[Len(results)].attempts = CallsOf(step_index)
       /\ (Len(calls) = 1 \/ calls[Len(calls) - 1].index # step_index)
          => results[Len(results)].attempts = 1

C5_Witness ==
  /\ Failed
  /\ last_result.error = "Snapshot nicht gefunden"
  /\ results[Len(results)].attempts = 1
  /\ step_index = 2
  /\ Len(steps) = 7

\* C6 (document-not-found recovery): a pipeline halted on a
\* document-not-found failure carries the recovery suggestion
\* snapshot_not_found.
C6_DocumentNotFoundRecovery ==
  (Failed /\ NotFoundText(last_result.error))
    => last_result.recovery_suggestion.error_type = "snapshot_not_found"

\* C7 (ordered execution, halt on first failure): the invocations of a run
\* start at the first step and each next one is of the same step after a
\* failure or of the next step after a success; the step results are those
\* of the steps in pipeline order with their attempts, all succeeded except
\* a last failed one, which exists exactly when the run failed, and after it
\* nothing was invoked.
C7_OrderedExecution ==
  /\ calls # <<>> => calls[1].index = 1
  /\ \A k \in 1..(Len(calls) - 1) :
       calls[k + 1].index =
         IF calls[k].success THEN calls[k].index + 1 ELSE calls[k].index
  /\ \A i \in DOMAIN results :
       /\ results[i].step = steps[i]
       /\ results[i].attempts = CallsOf(i)
       /\ i < Len(results) => results[i].success
  /\ pc = "run"
     => /\ Len(results) = step_index - 1
        /\ \A i \in DOMAIN results : results[i].success
  /\ Failed
     => /\ ~results[Len(results)].success
        /\ last_result.failed_at = steps[Len(results)]
        /\ calls[Len(calls)] = [index |-> Len(results), success |-> FALSE]
        /\ last_result.completed_steps = results
  /\ Succeeded
     => /\ Len(results) = Len(steps)
        /\ \A i \in DOMAIN results : results[i].success
        /\ last_result.completed_steps = results

C7_Witness ==
  /\ Failed
  /\ Len(results) = 4
  /\ results[2].attempts = 2
  /\ results[4].attempts = 2
  /\ Len(steps) = 7

\* ------------------------------------------------------------------------
\* Properties of the gate (GateSpec)
\* ------------------------------------------------------------------------

C9_GateExhaustionTerminal ==
  exhausted >= 1
    => /\ exhausted = 1
       /\ pc \in {"gate_exit", "done"}

\* C10 (gate enforces the patch contract): a proposal that passes the gate
\* has a supported action, an update_field proposal has a target path with
\* a field component, and an add_to_array or remove_from_array proposal has
\* a bare collection path.
C10_GateEnforcesContract ==
  (pc = "gate_exit" /\ gate_result.success)
    => LET cp == current_proposal.correction_proposal.val[1]
           action == cp.action.val[1]
           path == cp.target_path.val
       IN /\ action \in SupportedActions
          /\ action = "update_field" => HasFieldComponent(path)
          /\ action \in {"add_to_array", "remove_from_array"}
             => IsBareCollection(path)

\* ------------------------------------------------------------------------
\* Properties of the apply tool under the executor (ApplySpec) and run on
\* the input sets (PatchSpec)
\* ------------------------------------------------------------------------

\* the runs of the apply tool that apply_log holds
Runs == { apply_log[k] : k \in DOMAIN apply_log }

\* the stored proposal of run e passes the Pydantic schema
Valid(e) == e.proposal # None /\ LLMCorrectionResponse(e.proposal)

ActionOf(e) == e.proposal.correction_proposal.val[1].action.val[1]

PathOf(e) == e.proposal.correction_proposal.val[1].target_path.val

NewValueOf(e) == e.proposal.correction_proposal.val[1].new_value

CurrentValueOf(e) == e.proposal.correction_proposal.val[1].current_value

UpdatesOf(e) == e.proposal.correction_proposal.val[1].additional_updates.val

\* run e failed and left the document as it was
Rejected(e) == e.returncode = 1 /\ e.after = e.before

\* C11: the document is changed only by a run whose stored proposal passes
\* the schema validation; a run on a stored proposal that fails it exits
\* with 1 and leaves the document unchanged, and the pipeline run then
\* fails at the apply step
C11_NoUnvalidatedApply ==
  /\ \A e \in Runs : ~Valid(e) => Rejected(e)
  /\ ( /\ pc = "done"
       /\ proposal_file # None
       /\ ~LLMCorrectionResponse(proposal_file) )
     => /\ ~last_result.success
        /\ last_result.failed_at = "apply_correction"

C11_Witness ==
  /\ pc = "done"
  /\ proposal_file # None
  /\ ~LLMCorrectionResponse(proposal_file)
  /\ proposal_file.correction_proposal.val[1].action = JStr("update_field")
  /\ apply_runs = 3
  /\ data_file = DupDoc

\* C12: whenever the patch of the latest iteration has been applied, the
\* backup in the iteration folder is the document as it was before that
\* patch was first applied
C12_BackupInvariant ==
  pre_patch.exists =>
    /\ backup_file.exists
    /\ backup_file.data = pre_patch.data

\* the stderr of a run of the apply tool that ended with an addressing
\* error: KeyError (unknown collection), IndexError (index out of range),
\* TypeError (not an array), ValueError (invalid path)
AddressingErrors ==
  { ApplyStderr[c] : c \in {"KeyError", "IndexError", "TypeError", "ValueError"} }

\* C16: a pipeline run that fails at the apply step with an addressing error
\* has attempted the apply step exactly once
C16_AddressingNotRetried ==
  ( /\ pc = "done"
    /\ ~last_result.success
    /\ last_result.failed_at = "apply_correction"
    /\ last_result.error \in AddressingErrors )
  => last_result.completed_steps[Len(last_result.completed_steps)].attempts = 1

\* C13: a run of the tool on a proposal whose action is
\* manual_intervention_required succeeds and leaves the document as it was,
\* also when the proposal carries a new value and additional updates
C13_ManualNoMutation ==
  \A e \in Runs :
    (Valid(e) /\ ActionOf(e) = "manual_intervention_required")
      => e.returncode = 0 /\ e.after = e.before

C13_Witness ==
  \E e \in Runs :
    /\ Valid(e)
    /\ ActionOf(e) = "manual_intervention_required"
    /\ NewValueOf(e) = JStr("D1_2")
    /\ UpdatesOf(e) # <<>>
    /\ e.before = DupDoc
    /\ e.returncode = 0

\* the path has one of the forms without a field component: a bare
\* collection name or collection[i]
NoFieldComponent(path) ==
  /\ match_patterns(path).ok
  /\ match_patterns(path).index = <<>> \/ match_patterns(path).field_name = <<>>

\* C14: a run of the tool on an update_field proposal whose target path has
\* no field component fails and leaves the document as it was, whatever the
\* new value
C14_UpdateFieldNeedsField ==
  \A e \in Runs :
    (Valid(e) /\ ActionOf(e) = "update_field" /\ NoFieldComponent(PathOf(e)))
      => Rejected(e)

\* C14 (amended): a run of the tool on an update_field proposal whose target
\* path has no field component fails and leaves the document as it was,
\* unless the new value is USE_REFERENCE_DATA and the path is a bare
\* collection name
C14_NeedsFieldUnlessReference ==
  \A e \in Runs :
    ( /\ Valid(e)
      /\ ActionOf(e) = "update_field"
      /\ NoFieldComponent(PathOf(e))
      /\ ~ ( /\ NewValueOf(e) = JStr("USE_REFERENCE_DATA")
             /\ match_patterns(PathOf(e)).index = <<>> ) )
      => Rejected(e)

C14_Witness ==
  \E e \in Runs :
    /\ Valid(e)
    /\ ActionOf(e) = "update_field"
    /\ NoFieldComponent(PathOf(e))
    /\ match_patterns(PathOf(e)).index = <<>>
    /\ NewValueOf(e) = JStr("D1_2")
    /\ e.before = DupDoc
    /\ e.stderr = ApplyStderr["ValueError"]
    /\ Rejected(e)

\* run e applied one update through apply_single_update: an update_field
\* proposal without additional updates
SingleUpdate(e) ==
  /\ Valid(e)
  /\ ActionOf(e) = "update_field"
  /\ NewValueOf(e) # JStr("USE_REFERENCE_DATA")
  /\ UpdatesOf(e) = <<>>

\* run e failed with the exception of class c and left the document as it was
FailsWith(e, c) == Rejected(e) /\ e.stderr = ApplyStderr[c]

\* the addressing error due for the path parsed as t on document doc
AddressingCase(e, t, doc) ==
  IF ~t.ok THEN FailsWith(e, "ValueError")
  ELSE IF t.index = <<>> \/ t.field_name = <<>> THEN TRUE
  ELSE IF t.array_name \notin DOMAIN doc THEN FailsWith(e, "KeyError")
  ELSE IF doc[t.array_name].type # "list" THEN TRUE
  ELSE IF t.index[1] >= Len(doc[t.array_name].val) THEN FailsWith(e, "IndexError")
  ELSE IF \/ Len(t.field_name) = 1
          \/ doc[t.array_name].val[t.index[1] + 1].type # "dict"
  THEN TRUE
  ELSE IF t.field_name[2] \notin DOMAIN doc[t.array_name].val[t.index[1] + 1].val[1]
  THEN TRUE
  ELSE IF doc[t.array_name].val[t.index[1] + 1].val[1][t.field_name[2]].type # "list"
  THEN FailsWith(e, "TypeError")
  ELSE IF IntOf(t.field_name[4])
            >= Len(doc[t.array_name].val[t.index[1] + 1].val[1][t.field_name[2]].val)
  THEN FailsWith(e, "IndexError")
  ELSE TRUE

\* C15: an update whose path matches none of the four forms fails as an
\* invalid path; one that names an absent collection fails as an unknown
\* collection, one whose index or nested index is not below the length as
\* an index out of range, one whose nested segment targets a field that is
\* no array as not an array; each leaves the document as it was
C15_AddressingErrors ==
  \A e \in Runs :
    SingleUpdate(e) => AddressingCase(e, match_patterns(PathOf(e)), e.before)

\* the path parsed as t names a place of document doc
Resolves(doc, t) ==
  /\ t.ok
  /\ t.array_name \in DOMAIN doc
  /\ t.index # <<>> =>
       /\ doc[t.array_name].type = "list"
       /\ t.index[1] < Len(doc[t.array_name].val)
  /\ t.field_name # <<>> =>
       /\ doc[t.array_name].val[t.index[1] + 1].type = "dict"
       /\ Len(t.field_name) > 1 =>
            /\ t.field_name[2] \in DOMAIN doc[t.array_name].val[t.index[1] + 1].val[1]
            /\ doc[t.array_name].val[t.index[1] + 1].val[1][t.field_name[2]].type = "list"
            /\ IntOf(t.field_name[4])
                 < Len(doc[t.array_name].val[t.index[1] + 1].val[1][t.field_name[2]].val)

\* the value of document doc at the place the path parsed as t names
Read(doc, t) ==
  IF t.index = <<>> THEN doc[t.array_name]
  ELSE IF t.field_name = <<>> THEN doc[t.array_name].val[t.index[1] + 1]
  ELSE IF Len(t.field_name) = 1
  THEN Get(doc[t.array_name].val[t.index[1] + 1].val[1], t.field_name[1])
  ELSE doc[t.array_name].val[t.index[1] + 1].val[1][t.field_name[2]]
         .val[IntOf(t.field_name[4]) + 1]

\* run e set v at the path parsed as t and reading the path returns want
RoundTrip(e, t, want) ==
  Resolves(e.before, t) => /\ e.returncode = 0
                           /\ Resolves(e.after, t)
                           /\ Read(e.after, t) = want

\* C17: for every path of each of the four forms that resolves in the
\* document, setting v at the path and then reading the path returns v
C17_PathRoundTrip ==
  \A e \in Runs :
    SingleUpdate(e) => RoundTrip(e, match_patterns(PathOf(e)), NewValueOf(e))

\* the path parsed as t has an index and a field component
FieldBearing(t) == t.ok /\ t.index # <<>> /\ t.field_name # <<>>

\* C17 (amended): for every path of the forms collection[i].field and
\* collection[i].nested[j] that resolves in the document, setting v at the
\* path and then reading the path returns v, or the array or object that v
\* encodes when v is a string holding a JSON array or object
C17_FieldRoundTrip ==
  \A e \in Runs :
    (SingleUpdate(e) /\ FieldBearing(match_patterns(PathOf(e))))
      => RoundTrip(e, match_patterns(PathOf(e)), ParseJsonString(NewValueOf(e)))

C17_Witness ==
  \E e \in Runs :
    /\ SingleUpdate(e)
    /\ PathOf(e) = FieldPath
    /\ NewValueOf(e) = JStr("[\"E7\"]")
    /\ e.before = DupDoc
    /\ e.returncode = 0
    /\ Read(e.after, match_patterns(FieldPath)) = JList(<<JStr("E7")>>)

\* the last two runs of the tool applied the same proposal, the second to
\* the document the first left
SameProposalTwice ==
  /\ Len(apply_log) = 2
  /\ apply_log[2].proposal = apply_log[1].proposal
  /\ apply_log[2].before = apply_log[1].after

Without(items, k) == SubSeq(items, 1, k - 1) \o SubSeq(items, k + 1, Len(items))

\* record item has, for every field of the predicate pred, an equal value
\* (a field the record lacks counts as null)
FieldsEqual(item, pred) ==
  /\ item.type = "dict"
  /\ \A k \in DOMAIN pred :
       IF k \in DOMAIN item.val[1] THEN item.val[1][k] = pred[k]
       ELSE pred[k] = JNull

\* k is the lowest index (from 1) of a record of items that equals pred
FirstEqual(items, pred, k) ==
  /\ k \in DOMAIN items
  /\ FieldsEqual(items[k], pred)
  /\ \A j \in 1..(k - 1) : ~FieldsEqual(items[j], pred)

\* run e succeeded and left the document without element k of the collection
RemovedAt(e, array_name, k) ==
  /\ e.returncode = 0
  /\ e.after = [e.before EXCEPT ![array_name] = JList(Without(@.val, k))]

\* what run e owes for the path parsed as t, the collection items and the
\* record to remove
RemoveCase(e, t, items, item_to_remove) ==
  IF t.index # <<>>
  THEN IF t.index[1] < Len(items) THEN RemovedAt(e, t.array_name, t.index[1] + 1)
       ELSE FailsWith(e, "IndexError")
  ELSE IF item_to_remove.type # "dict" THEN TRUE
  ELSE IF \E k \in DOMAIN items : FieldsEqual(items[k], item_to_remove.val[1])
  THEN \E k \in DOMAIN items :
         /\ FirstEqual(items, item_to_remove.val[1], k)
         /\ RemovedAt(e, t.array_name, k)
  ELSE FailsWith(e, "ValueError")

\* run e applied one remove_from_array proposal to a collection of the
\* document
SingleRemove(e) ==
  /\ Valid(e)
  /\ ActionOf(e) = "remove_from_array"
  /\ UpdatesOf(e) = <<>>
  /\ match_patterns(PathOf(e)).ok
  /\ match_patterns(PathOf(e)).array_name \in DOMAIN e.before
  /\ e.before[match_patterns(PathOf(e)).array_name].type = "list"

TargetsOf(e) ==
  { parse_target_path(p).array_name :
      p \in { q \in { PathOf(e) }
                 \cup { UpdatesOf(e)[i].val[1].target_path.val :
                          i \in DOMAIN UpdatesOf(e) } :
              parse_target_path(q).ok } }

\* C20: no run of the tool adds or drops a top-level collection of the
\* document, whatever the action, and a run whose proposal (not a manual
\* intervention) targets a collection the document does not have fails and
\* leaves the document as it was
C20_NoNewCollections ==
  /\ \A e \in Runs : DOMAIN e.after = DOMAIN e.before
  /\ pre_patch.exists => DOMAIN data_file = DOMAIN pre_patch.data
  /\ \A e \in Runs :
       ( /\ Valid(e)
         /\ ActionOf(e) \in {"update_field", "add_to_array", "remove_from_array"}
         /\ \E c \in TargetsOf(e) : c \notin DOMAIN e.before )
         => Rejected(e)

C20_Witness ==
  \E e \in Runs :
    /\ Valid(e)
    /\ ActionOf(e) = "add_to_array"
    /\ PathOf(e) = <<"orders">>
    /\ NewValueOf(e) = Demand("D3")
    /\ e.before = DupDoc
    /\ e.stderr = ApplyStderr["KeyError"]
    /\ Rejected(e)

\* ------------------------------------------------------------------------
\* Properties of the single-run pipelines and of the recovery suggestion
\* (Spec)
\* ------------------------------------------------------------------------

\* C27: analyze_only and apply_and_upload are run exactly once per call of
\* execute_pipeline, whatever the validation file holds and whether the run
\* succeeds or fails; a second run is only ever started for full_correction
\* and correction_from_validation
C27_SingleRunPipelines ==
  /\ pipeline_name \in {"analyze_only", "apply_and_upload"} => runs <= 1
  /\ (pc = "done" /\ pipeline_name \in {"analyze_only", "apply_and_upload"})
       => runs = 1 /\ last_result.total_iterations = 1
  /\ runs > 1 => pipeline_name \in {"full_correction", "correction_from_validation"}

C27_Witness ==
  /\ pc = "done"
  /\ pipeline_name = "apply_and_upload"
  /\ snapshot_id # ""
  /\ last_result.success
  /\ validation_file.exists
  /\ CountLevel(validation_file.data, "ERROR") > 0
  /\ runs = 1

\* the recovery suggestion of the returned failure
Recovery == last_result.recovery_suggestion

\* C26: every returned failure carries a recovery suggestion that is one of
\* the five variants missing_prerequisite, snapshot_not_found,
\* authentication_failed, validation_error and unknown
C26_FiveVariants ==
  Failed => Recovery.error_type \in
              { "missing_prerequisite", "snapshot_not_found",
                "authentication_failed", "validation_error", "unknown" }

\* the fields each variant of the recovery suggestion carries
VariantFields ==
  [ missing_prerequisite |->
      {"error_type", "missing_step", "required_file", "suggestion"},
    missing_file |-> {"error_type", "context"},
    snapshot_not_found |-> {"error_type", "context"},
    authentication_failed |-> {"error_type", "config_issue"},
    validation_error |-> {"error_type", "context"},
    unknown |-> {"error_type", "failed_step"} ]

\* C26 (amended): every returned failure carries a recovery suggestion that
\* is one of six variants, the five named ones and missing_file, each with
\* its fields; unknown names the failed step
C26_SixVariants ==
  Failed =>
    /\ Recovery.error_type \in DOMAIN VariantFields
    /\ DOMAIN Recovery = VariantFields[Recovery.error_type]
    /\ Recovery.error_type = "unknown" => Recovery.failed_step = last_result.failed_at
    /\ Recovery.error_type = "missing_prerequisite"
         => /\ Recovery.missing_step = "identify_error_llm"
            /\ Recovery.required_file = "last_search_results.json"

C26_Witness ==
  /\ Failed
  /\ last_result.error = "Snapshot does not exist"
  /\ Recovery = [ error_type |-> "missing_file",
                  context |-> "prerequisite_step_failed" ]

\* ------------------------------------------------------------------------
\* update_snapshot.py under the executor (UploadSpec)
\* ------------------------------------------------------------------------

\* how one run of update_snapshot.py can end: "ok" (sys.exit(0)), "no_secret"
\* (SmartPlanningAPI() raises ValueError), "unauthorized" (the token request
\* is answered 401), "rejected" (the PUT is answered with an error status),
\* "after_put" (an exception after the server accepted the PUT)
UploadCauses == { "ok", "no_secret", "unauthorized", "rejected", "after_put" }

\* variant of update_snapshot_main in which the server stores the data of
\* every run
update_snapshot_main_AlwaysStored(cause, data, remote) ==
  [ returncode |-> IF cause = "ok" THEN 0 ELSE 1, stderr |-> "",
    remote |-> data, accepted |-> cause \in { "ok", "after_put" } ]

\* main() of update_snapshot.py run on the document data while the server
\* holds remote: every exception is caught, printed to stdout and followed
\* by sys.exit(1), so stderr stays empty; the server stores dataJson when it
\* accepts the PUT
update_snapshot_main(cause, data, remote) ==
  [ returncode |-> IF cause = "ok" THEN 0 ELSE 1,
    stderr |-> "",
    remote |-> IF cause \in { "ok", "after_put" } THEN data ELSE remote,
    accepted |-> cause \in { "ok", "after_put" } ]

\* the runs of update_snapshot.py the environment may produce, and the run
\* that _run_tool ends after its timeout, before or after the server
\* accepted the PUT
UploadRuns ==
  { [ cause |-> c, timeout |-> FALSE, run |-> update_snapshot_main(c, data_file, remote_file) ] :
      c \in UploadCauses }
  \cup
  { [ cause |-> "timeout", timeout |-> TRUE,
      run |-> [ returncode |-> 1, stderr |-> "",
                remote |-> IF acc THEN data_file ELSE remote_file,
                accepted |-> acc ] ] : acc \in BOOLEAN }

\* one loop iteration of `while attempt <= max_retries` for update_snapshot
RunUploadSnapshot ==
  /\ pc = "run"
  /\ step = "update_snapshot"
  /\ \E u \in UploadRuns :
     \E tool_result \in { IF u.timeout THEN TimeoutResult
                          ELSE ProcessResult(u.run.returncode, u.run.stderr) } :
       /\ ~tool_result.success => failures < MaxFailures
       /\ AfterTool(tool_result, attempt + 1, gate_starts, exhausted,
                    validation_file, FALSE)
       /\ remote_file' = u.run.remote
       /\ upload_log' =
            [ before |-> IF attempt = 0 THEN remote_file ELSE upload_log.before,
              accepted |-> u.run.accepted
                             \/ (attempt > 0 /\ upload_log.accepted),
              cause |-> u.cause ]
  /\ UNCHANGED << pipeline_name, snapshot_id, proposal_file, gateVars, requests >>
  /\ UNCHANGED << applyVars, iterVars, searchVars, ambientVars >>

UploadProposals ==
  { PatchOf("update_field", FieldPath, JMissing, JStr("D1_2"), <<>>),
    PatchOf("add_to_array", BarePath, JMissing, Demand("D3"), <<>>),
    PatchOf("update_field", OutOfRangePath, JMissing, JStr("D1_2"), <<>>) }

\* the executor running apply_and_upload, called again after it returned,
\* with the apply tool and the upload tool in detail
UploadInit ==
  /\ InitExecutor
  /\ validation_file = NoFile
  /\ proposal_file \in UploadProposals
  /\ data_file \in { DupDoc, EmptyDoc }
  /\ InitApply
  /\ InitFiles

UploadNext ==
  \/ execute_pipeline("apply_and_upload", "A")
  \/ RunApplyCorrection
  \/ RunUploadSnapshot
  \/ RunValidateSnapshot
  \/ ReturnToCaller

UploadSpec == UploadInit /\ [][UploadNext]_vars

\* ------------------------------------------------------------------------
\* Properties of the upload step (UploadSpec)
\* ------------------------------------------------------------------------

\* the pipeline has failed at the upload step
UploadFailed == Failed /\ last_result.failed_at = "update_snapshot"

\* the attempts the executor made for the step that failed
FailedAttempts == last_result.completed_steps[Len(last_result.completed_steps)].attempts

\* C25: a step that fails because of an authentication failure is attempted
\* once and the pipeline halts
C25_AuthFailsOnce ==
  (UploadFailed /\ upload_log.cause \in { "no_secret", "unauthorized" })
    => FailedAttempts = 1

\* the document as the latest run of the apply tool left it
Applied == apply_log[Len(apply_log)].after

\* C30: after a successful local apply and an upload step that failed
\* terminally, the local document keeps the patch, the server's copy is the
\* one from before the step, and the next run of the apply tool starts from
\* the local document
C30_LocalAheadOfRemote ==
  /\ UploadFailed =>
       /\ data_file = Applied
       /\ remote_file = upload_log.before
  /\ Len(apply_log) = 2 => apply_log[2].before = apply_log[1].after

\* C30 (amended): after a successful local apply and an upload step that
\* failed terminally, the local document keeps the patch; the server's copy
\* is the one from before the step unless the server accepted a PUT before
\* the run failed, and then it equals the local document; the next run of
\* the apply tool starts from the local document
C30_LocalKeepsPatch ==
  /\ UploadFailed =>
       /\ data_file = Applied
       /\ apply_log[Len(apply_log)].returncode = 0
       /\ remote_file = IF upload_log.accepted THEN data_file
                        ELSE upload_log.before
  /\ Len(apply_log) = 2 => apply_log[2].before = apply_log[1].after

\* the upload was rejected in two pipeline calls in a row: the patched local
\* document differs from the server's copy, and the second call's apply ran
\* on the document the first call left
C30_Witness ==
  /\ UploadFailed
  /\ Len(apply_log) = 2
  /\ apply_log[1].returncode = 0
  /\ apply_log[1].after # apply_log[1].before
  /\ apply_log[2].before = apply_log[1].after
  /\ remote_file = apply_log[1].before
  /\ ~upload_log.accepted
  /\ upload_log.cause = "rejected"
  /\ data_file # remote_file

\* ------------------------------------------------------------------------
\* identify_snapshot.py: strings
\* ------------------------------------------------------------------------

\* the characters of every string of the searched documents and of the
\* command line
SearchChars ==
     ("" :> <<>>)
  @@ (" " :> <<" ">>)
  @@ ("x" :> <<"x">>)
  @@ ("D1" :> <<"D", "1">>)
  @@ ("d1x" :> <<"d", "1", "x">>)
  @@ ("12" :> <<"1", "2">>)
  @@ ("12.0" :> <<"1", "2", ".", "0">>)
  @@ ("True" :> <<"T", "r", "u", "e">>)
  @@ ("zzz" :> <<"z", "z", "z">>)
  @@ ("ABC" :> <<"A", "B", "C">>)
  @@ ("ABC12" :> <<"A", "B", "C", "1", "2">>)
  @@ ("AB123" :> <<"A", "B", "1", "2", "3">>)
  @@ ("ABC123" :> <<"A", "B", "C", "1", "2", "3">>)
  @@ ("ABD123" :> <<"A", "B", "D", "1", "2", "3">>)
  @@ ("abd123" :> <<"a", "b", "d", "1", "2", "3">>)
  @@ ("AXY123" :> <<"A", "X", "Y", "1", "2", "3">>)
  @@ ("ABX1Y3" :> <<"A", "B", "X", "1", "Y", "3">>)
  @@ ("XYZ999" :> <<"X", "Y", "Z", "9", "9", "9">>)
  @@ ("--empty" :> <<"-", "-", "e", "m", "p", "t", "y">>)
  @@ ("--snapshot-id" :> <<"-", "-", "s", "n", "a", "p", "s", "h", "o", "t", "-", "i", "d">>)
  @@ ("A" :> <<"A">>)
  @@ ("note" :> <<"n", "o", "t", "e">>)
  @@ ("skills" :> <<"s", "k", "i", "l", "l", "s">>)
  @@ ("Skills" :> <<"S", "k", "i", "l", "l", "s">>)
  @@ ("skill_s" :> <<"s", "k", "i", "l", "l", "_", "s">>)
  @@ ("demands" :> <<"d", "e", "m", "a", "n", "d", "s">>)
  @@ ("demandId" :> <<"d", "e", "m", "a", "n", "d", "I", "d">>)
  @@ ("quantity" :> <<"q", "u", "a", "n", "t", "i", "t", "y">>)
  @@ ("active" :> <<"a", "c", "t", "i", "v", "e">>)
  @@ ("E1" :> <<"E", "1">>)
  @@ ("E0" :> <<"E", "0">>)
  @@ ("E9" :> <<"E", "9">>)
  @@ ("D1_2" :> <<"D", "1", "_", "2">>)
  @@ ("D3" :> <<"D", "3">>)

\* str(value) of a JSON number or boolean
PyStr(value) ==
  CASE value.type = "int" ->
         (1 :> "1" @@ 12 :> "12")[value.val[1]]
    [] value.type = "float" -> value.val[1]
    [] value.type = "bool" -> IF value.val[1] THEN "True" ELSE "False"

\* a JSON number with a fraction part, kept as Python prints it
JFloat(text) == [type |-> "float", val |-> <<text>>]

JBool(b) == [type |-> "bool", val |-> <<b>>]

\* isinstance(value, (int, float)): bool is a subclass of int
IsNumber(value) == value.type \in {"int", "float", "bool"}

\* search_value.lower() in value.lower()
ContainsLower(search_value, value) ==
  Contains(Lower(SearchChars[value]), Lower(SearchChars[search_value]))

NotSpaceOrUnderscore(c) == c \notin {" ", "_"}

\* name.replace(" ", "").replace("_", "").lower()
normalize_field_name(name) ==
  Lower(SelectSeq(SearchChars[name], NotSpaceOrUnderscore))

\* value.strip() == ""
IsBlank(value) ==
  \A i \in DOMAIN SearchChars[value] : SearchChars[value][i] \in {" ", "\t", "\n"}

Min3(a, b, c) ==
  IF a <= b /\ a <= c THEN a ELSE IF b <= c THEN b ELSE c

\* the one element of a singleton set
Only(S) == CHOOSE x \in S : TRUE

RECURSIVE BuildRow(_, _, _, _, _)

\* the inner loop of levenshtein_distance from position j (from 0) of s2 on;
\* the rows are Python's lists, so row[k + 1] here is row[k] there. Each
\* list is bound as a value before the loop goes on, as the code holds it.
BuildRow(previous_row, c1, s2, current_row, j) ==
  IF j = Len(s2) THEN current_row
  ELSE Only({ BuildRow(previous_row, c1, s2, row, j + 1) :
              row \in { Append(current_row,
                               Min3(previous_row[j + 2] + 1,
                                    current_row[j + 1] + 1,
                                    previous_row[j + 1]
                                      + (IF c1 # s2[j + 1] THEN 1 ELSE 0))) } })

\* current_row once the character c1 at position i (from 0) of s1 is
\* processed
NextRow(previous_row, c1, i, s2) ==
  BuildRow(previous_row, c1, s2, << i + 1 >>, 0)

RECURSIVE RowAfter(_, _, _)

\* previous_row after the first n characters of s1
RowAfter(s1, s2, n) ==
  IF n = 0 THEN [j \in 1..(Len(s2) + 1) |-> j - 1]
  ELSE Only({ NextRow(previous_row, s1[n], n - 1, s2) :
              previous_row \in { RowAfter(s1, s2, n - 1) } })

\* levenshtein_distance on character sequences
levenshtein_distance(s1, s2) ==
  IF Len(s1) < Len(s2) THEN RowAfter(s2, s1, Len(s2))[Len(s1) + 1]
  ELSE IF Len(s2) = 0 THEN Len(s1)
  ELSE RowAfter(s1, s2, Len(s1))[Len(s2) + 1]

\* calculate_similarity_score as the fraction num/den: 1 - distance/max_len
\* plus 0.2 when one lower-cased string contains the other, at most 1. (The
\* floating-point values of the code order the fractions of every pair of
\* strings in SearchChars as the fractions are ordered.)
calculate_similarity_score(search_value, candidate) ==
  LET search_lower == Lower(SearchChars[search_value])
      candidate_lower == Lower(SearchChars[candidate])
      substring_bonus ==
        IF Contains(candidate_lower, search_lower)
             \/ Contains(search_lower, candidate_lower)
        THEN 1 ELSE 0
      max_len == IF Len(search_lower) >= Len(candidate_lower)
                 THEN Len(search_lower) ELSE Len(candidate_lower)
      raw == 5 * (max_len - levenshtein_distance(search_lower, candidate_lower))
               + substring_bonus * max_len
  IN
  IF search_lower = candidate_lower THEN [num |-> 1, den |-> 1]
  ELSE IF max_len = 0 THEN [num |-> 0, den |-> 1]
  ELSE [ num |-> IF raw > 5 * max_len THEN 5 * max_len ELSE raw,
         den |-> 5 * max_len ]

\* calculate_similarity_score tabulated for the strings the model uses
SimilarityTable ==
  [search_value \in DOMAIN SearchChars |->
     [candidate \in DOMAIN SearchChars |->
        calculate_similarity_score(search_value, candidate)]]

\* a >= b for two scores
ScoreGE(a, b) == a.num * b.den >= b.num * a.den

\* min_similarity = 0.6
min_similarity == [num |-> 3, den |-> 5]

\* ------------------------------------------------------------------------
\* identify_snapshot.py: searches
\* ------------------------------------------------------------------------

\* the keys of the searched documents in the order in which they appear in
\* the files (a Python dict is walked in that order)
KeyOrder ==
  << "demands", "equipment", "skills", "demandId", "id", "quantity", "active",
     "note", "tags", "predecessors" >>

\* obj.items() as the sequence of keys
KeysOf(rec) == SelectSeq(KeyOrder, LAMBDA k : k \in DOMAIN rec)

IndexTokens == << "0", "1", "2", "3", "4", "5" >>

\* f"{path}.{key}" if path else key
ChildPath(path, key) == IF path = <<>> THEN << key >> ELSE path \o << ".", key >>

\* f"{path}[{idx}]"
ItemPath(path, idx) == path \o << "[", IndexTokens[idx + 1], "]" >>

RECURSIVE Concat(_)

\* results.extend(...) over a sequence of result lists
Concat(lists) ==
  IF lists = <<>> THEN <<>> ELSE Head(lists) \o Concat(Tail(lists))

IsContainer(value) == value.type \in {"dict", "list"}

\* the two tests of search_in_dict on a value: a string that contains the
\* search value case-insensitively, a number whose str() is the search value
ExactMatch(value, search_value) ==
  IF value.type = "str"
  THEN ContainsLower(search_value, value.val[1])
  ELSE IsNumber(value) /\ search_value = PyStr(value)

RECURSIVE search_in_dict(_, _, _)

\* one pass of a loop of search_in_dict: the entry for value, then the
\* results of the recursion into it
ExactHits(value, parent, search_value, current_path) ==
  (IF ExactMatch(value, search_value)
   THEN << [ path |-> current_path, value |-> value, parent |-> parent ] >>
   ELSE <<>>)
  \o (IF IsContainer(value)
      THEN search_in_dict(value, search_value, current_path)
      ELSE <<>>)

\* search_in_dict; a result keeps path, value and parent (its key or index
\* is the last component of path)
search_in_dict(obj, search_value, path) ==
  CASE obj.type = "dict" ->
         Concat([ i \in 1..Len(KeysOf(obj.val[1])) |->
                    ExactHits(obj.val[1][KeysOf(obj.val[1])[i]], obj, search_value,
                              ChildPath(path, KeysOf(obj.val[1])[i])) ])
    [] obj.type = "list" ->
         Concat([ i \in 1..Len(obj.val) |->
                    ExactHits(obj.val[i], obj, search_value, ItemPath(path, i - 1)) ])
    [] OTHER -> <<>>

RECURSIVE fuzzy_search_in_dict(_, _, _)

\* one pass of a loop of fuzzy_search_in_dict
FuzzyHits(value, parent, search_value, current_path) ==
  (IF /\ value.type = "str"
      /\ Len(SearchChars[value.val[1]]) > 0
      /\ ScoreGE(SimilarityTable[search_value][value.val[1]], min_similarity)
   THEN << [ result |-> [ path |-> current_path, value |-> value,
                          parent |-> parent ],
             similarity |-> SimilarityTable[search_value][value.val[1]] ] >>
   ELSE <<>>)
  \o (IF IsContainer(value)
      THEN fuzzy_search_in_dict(value, search_value, current_path)
      ELSE <<>>)

\* fuzzy_search_in_dict with min_similarity = 0.6: the list of
\* (result, similarity) pairs
fuzzy_search_in_dict(obj, search_value, path) ==
  CASE obj.type = "dict" ->
         Concat([ i \in 1..Len(KeysOf(obj.val[1])) |->
                    FuzzyHits(obj.val[1][KeysOf(obj.val[1])[i]], obj, search_value,
                              ChildPath(path, KeysOf(obj.val[1])[i])) ])
    [] obj.type = "list" ->
         Concat([ i \in 1..Len(obj.val) |->
                    FuzzyHits(obj.val[i], obj, search_value, ItemPath(path, i - 1)) ])
    [] OTHER -> <<>>

RECURSIVE InsertDesc(_, _)

\* x put into the sorted list before the first pair that does not score
\* higher
InsertDesc(x, sorted) ==
  IF sorted = <<>> THEN << x >>
  ELSE IF ~ScoreGE(x.similarity, Head(sorted).similarity)
       THEN << Head(sorted) >> \o InsertDesc(x, Tail(sorted))
       ELSE << x >> \o sorted

RECURSIVE SortDesc(_)

\* fuzzy_results.sort(key=lambda x: x[1], reverse=True): stable, pairs of
\* equal score keep their order
SortDesc(pairs) ==
  IF pairs = <<>> THEN <<>> ELSE InsertDesc(Head(pairs), SortDesc(Tail(pairs)))

\* fuzzy_results[:n]
FirstN(list, n) == SubSeq(list, 1, IF Len(list) < n THEN Len(list) ELSE n)

\* variant of TopMatches that keeps every match
TopMatches_All(fuzzy_results) ==
  LET top_matches == SortDesc(fuzzy_results) IN
  [ i \in 1..Len(top_matches) |->
      top_matches[i].result
        @@ [ similarity_score |-> top_matches[i].similarity,
             fuzzy_match |-> TRUE ] ]

\* the five best matches, each with similarity_score and fuzzy_match = True
TopMatches(fuzzy_results) ==
  LET top_matches == FirstN(SortDesc(fuzzy_results), 5) IN
  [ i \in 1..Len(top_matches) |->
      top_matches[i].result
        @@ [ similarity_score |-> top_matches[i].similarity,
             fuzzy_match |-> TRUE ] ]

\* search_by_id: the exact matches, and the fuzzy ones only when there is
\* no exact match
search_by_id(data, search_id) ==
  IF search_in_dict(JDict(data), search_id, <<>>) # <<>>
  THEN search_in_dict(JDict(data), search_id, <<>>)
  ELSE TopMatches(fuzzy_search_in_dict(JDict(data), search_id, <<>>))

\* value is None or value == "" or value.strip() == ""
is_empty(value) ==
  \/ value.type = "null"
  \/ value.type = "str" /\ (value.val[1] = "" \/ IsBlank(value.val[1]))

\* variant of OwnEmptyField that also collects a dict without the field
OwnEmptyField_Absent(obj, field_name, path) ==
  IF field_name \notin DOMAIN obj.val[1]
  THEN << [ path |-> ChildPath(path, field_name), value |-> JNull,
            parent |-> obj ] >>
  ELSE IF is_empty(obj.val[1][field_name])
  THEN << [ path |-> ChildPath(path, field_name),
            value |-> obj.val[1][field_name], parent |-> obj ] >>
  ELSE <<>>

\* search_empty_field on a dict: the entry of the dict itself
OwnEmptyField(obj, field_name, path) ==
  IF field_name \in DOMAIN obj.val[1] /\ is_empty(obj.val[1][field_name])
  THEN << [ path |-> ChildPath(path, field_name),
            value |-> obj.val[1][field_name], parent |-> obj ] >>
  ELSE <<>>

RECURSIVE search_empty_field(_, _, _)

\* search_empty_field
search_empty_field(obj, field_name, path) ==
  CASE obj.type = "dict" ->
         OwnEmptyField(obj, field_name, path)
         \o Concat([ i \in 1..Len(KeysOf(obj.val[1])) |->
                       IF IsContainer(obj.val[1][KeysOf(obj.val[1])[i]])
                       THEN search_empty_field(obj.val[1][KeysOf(obj.val[1])[i]],
                                               field_name,
                                               ChildPath(path, KeysOf(obj.val[1])[i]))
                       ELSE <<>> ])
    [] obj.type = "list" ->
         Concat([ i \in 1..Len(obj.val) |->
                    IF IsContainer(obj.val[i])
                    THEN search_empty_field(obj.val[i], field_name,
                                            ItemPath(path, i - 1))
                    ELSE <<>> ])
    [] OTHER -> <<>>

RECURSIVE find_empty_arrays(_, _, _)

\* one pass of the loop over obj.items() in find_empty_arrays
EmptyArrayHits(key, value, search_field, current_path) ==
  (IF /\ value.type = "list"
      /\ Len(value.val) = 0
      /\ normalize_field_name(key) = normalize_field_name(search_field)
   THEN << [ path |-> current_path, field_name |-> key ] >>
   ELSE <<>>)
  \o find_empty_arrays(value, search_field, current_path)

\* find_empty_arrays (search_recursive); an entry keeps path and field_name
find_empty_arrays(obj, search_field, path) ==
  CASE obj.type = "dict" ->
         Concat([ i \in 1..Len(KeysOf(obj.val[1])) |->
                    EmptyArrayHits(KeysOf(obj.val[1])[i],
                                   obj.val[1][KeysOf(obj.val[1])[i]], search_field,
                                   ChildPath(path, KeysOf(obj.val[1])[i])) ])
    [] obj.type = "list" ->
         Concat([ i \in 1..Len(obj.val) |->
                    find_empty_arrays(obj.val[i], search_field, ItemPath(path, i - 1)) ])
    [] OTHER -> <<>>

\* ------------------------------------------------------------------------
\* identify_snapshot.py: main
\* ------------------------------------------------------------------------

\* load_config: the parsed config.json, the default when the file is missing
load_config(config) ==
  IF ~config.exists THEN [ use_reference_data_fallback |-> JBool(TRUE) ]
  ELSE config.data

\* Python's truth value of a JSON value
Truthy(value) ==
  CASE value.type = "bool" -> value.val[1]
    [] value.type = "null" -> FALSE
    [] value.type = "list" -> value.val # <<>>
    [] value.type = "str" -> value.val[1] # ""
    [] OTHER -> TRUE

\* variant of use_reference_fallback that takes a missing key for False
use_reference_fallback_DefaultOff(config) ==
  /\ "use_reference_data_fallback" \in DOMAIN load_config(config)
  /\ Truthy(load_config(config)["use_reference_data_fallback"])

\* config.get("use_reference_data_fallback", True) as `if` reads it
use_reference_fallback(config) ==
  IF "use_reference_data_fallback" \in DOMAIN load_config(config)
  THEN Truthy(load_config(config)["use_reference_data_fallback"])
  ELSE TRUE

\* reference_data and field_path in reference_data and
\* reference_data[field_path]: the path of the empty array is a key of the
\* reference snapshot and the value under it is not empty
reference_available(reference, field_path) ==
  /\ reference.exists
  /\ Len(field_path) = 1
  /\ field_path[1] \in DOMAIN reference.data
  /\ Truthy(reference.data[field_path[1]])

ReferenceWarning ==
  "[!] Using reference snapshot as automatic fallback - verify manually after correction"

\* the results list main builds for the first empty array found
EmptyArrayResult(empty_array, config, reference) ==
  LET base == [ path |-> empty_array.path, field_name |-> empty_array.field_name,
                value |-> JList(<<>>), is_empty_array |-> TRUE ]
  IN
  IF use_reference_fallback(config)
  THEN IF reference_available(reference, empty_array.path)
       THEN << base @@
               [ fallback_solution |-> "reference_data",
                 reference_data_available |-> TRUE,
                 reference_data |->
                   FirstN(reference.data[empty_array.path[1]].val, 3),
                 reference_data_count |->
                   Len(reference.data[empty_array.path[1]].val),
                 warning |-> ReferenceWarning ] >>
       ELSE << base @@
               [ manual_intervention_required |-> TRUE,
                 reason |-> "Empty array with no reference data available" ] >>
  ELSE << base @@
          [ manual_intervention_required |-> TRUE,
            reason |-> "Empty array - reference data fallback disabled in config" ] >>

\* the results of main in --empty mode
EmptyModeResults(field_name, data, config, reference) ==
  IF find_empty_arrays(JDict(data), field_name, <<>>) # <<>>
  THEN EmptyArrayResult(find_empty_arrays(JDict(data), field_name, <<>>)[1],
                        config, reference)
  ELSE search_empty_field(JDict(data), field_name, <<>>)

\* the part of main up to `results`: args is sys.argv[1:]; None when main
\* returns before it searches
SearchOf(args, data, config, reference) ==
  IF Len(args) < 1 THEN None
  ELSE IF args[1] = "--empty"
  THEN IF Len(args) < 2 THEN None
       ELSE [ search_mode |-> "empty_field", search_value |-> args[2],
              results |-> EmptyModeResults(args[2], data, config, reference) ]
  ELSE [ search_mode |-> "value", search_value |-> args[1],
         results |-> search_by_id(data, args[1]) ]

\* error_type of last_search_results.json
ErrorType(search) ==
  IF search.results # <<>>
  THEN IF search.search_mode = "empty_field" THEN "EMPTY_FIELD"
       ELSE IF Len(search.results) > 1 THEN "DUPLICATE_ID" ELSE "SINGLE_MATCH"
  ELSE "NO_RESULTS_FOUND"

\* result_entry without the context that main adds from other parts of the
\* document: path, value and the optional metadata of the result
JsonResult(r) == [ k \in DOMAIN r \ { "parent" } |-> r[k] ]

\* last_search_results.json after main: written when there are results,
\* created empty when there are none and no file exists, otherwise left as
\* it was
SearchFileAfter(search, old_file) ==
  IF search = None THEN old_file
  ELSE IF search.results = <<>> /\ old_file.exists THEN old_file
  ELSE FileOf([ search_mode |-> search.search_mode,
                search_value |-> search.search_value,
                error_type |-> ErrorType(search),
                results_count |-> Len(search.results),
                results |-> [ i \in 1..Len(search.results) |->
                                JsonResult(search.results[i]) ] ])

\* ------------------------------------------------------------------------
\* identify_snapshot.py run on bounded inputs (SearchSpec)
\* ------------------------------------------------------------------------

\* ids that differ from the search value ABC123 by case, one or two
\* characters; numbers, a boolean, blank and missing notes; an empty
\* top-level collection
SimilarDoc ==
  [ demands |->
      JList(<< JDict([ demandId |-> JStr("ABD123"), quantity |-> JInt(12),
                       note |-> JNull ]),
               JDict([ demandId |-> JStr("XYZ999"), quantity |-> JFloat("12.0"),
                       note |-> JStr(" ") ]),
               JDict([ demandId |-> JStr("ABC12"), active |-> JBool(TRUE),
                       note |-> JStr("x") ]),
               JDict([ demandId |-> JStr("AB123"),
                       tags |-> JList(<< JStr("ABX1Y3"), JStr("AXY123"),
                                         JStr("abd123"), JStr("ABC"),
                                         JStr("") >>) ]) >>),
    skills |-> JList(<<>>) ]

\* an empty collection inside a record, a non-empty top-level collection of
\* the same name, a note nested in a note
NestedDoc ==
  [ demands |->
      JList(<< JDict([ demandId |-> JStr("D1"), skills |-> JList(<<>>),
                       note |-> JStr("") ]),
               JDict([ demandId |-> JStr("d1x"),
                       note |-> JDict([ id |-> JInt(1), note |-> JNull ]) ]) >>),
    skills |-> JList(<< JStr("x") >>) ]

SearchDocs == { SimilarDoc, NestedDoc }

ConfigFiles ==
  { NoFile,
    FileOf([ use_reference_data_fallback |-> JBool(TRUE) ]),
    FileOf([ use_reference_data_fallback |-> JBool(FALSE) ]),
    FileOf([ active |-> JBool(FALSE) ]) }

ReferenceFiles ==
  { NoFile,
    FileOf([ skills |-> JList(<< JStr("x"), JStr("ABC"), JStr("D1"), JStr("A") >>) ]),
    FileOf([ skills |-> JList(<<>>) ]),
    FileOf([ demands |-> JList(<< Demand("D1") >>) ]) }

\* sys.argv[1:] of the runs
SearchArgs ==
  { <<>>, << "--empty" >>,
    << "ABC123" >>, << "D1" >>, << "12" >>, << "12.0" >>, << "True" >>,
    << "x" >>, << "zzz" >>,
    << "--empty", "note" >>, << "--empty", "skills" >>,
    << "--empty", "skill_s" >>, << "--empty", "Skills" >>,
    << "--empty", "demandId" >>,
    << "--snapshot-id", "A", "D1" >>,
    << "--snapshot-id", "A", "--empty", "skills" >> }

\* the runs of identify_snapshot.py a behaviour holds
MaxSearches == 1

\* one run of identify_snapshot.py, the runs so far being fewer than limit
RunSearch(limit) ==
  /\ search_runs < limit
  /\ search_runs' = search_runs + 1
  /\ \E args \in SearchArgs :
     \E search \in { SearchOf(args, data_file, config_file, reference_file) } :
       /\ argv' = args
       /\ search_results' = search
       /\ search_file' = SearchFileAfter(search, search_file)
  /\ UNCHANGED << pc, pipeline_name, snapshot_id, iteration, step_index,
                  attempt, results, last_result, validation_file,
                  proposal_file, gateVars, runs, calls, failures, last_error,
                  gate_starts, requests, exhausted, failed_runs >>
  /\ UNCHANGED << applyVars, storeVars, iterVars, config_file, reference_file,
                  ambientVars >>

\* one run of identify_snapshot.py
RunIdentifySnapshot == RunSearch(MaxSearches)

SearchInit ==
  /\ InitExecutor
  /\ validation_file = NoFile
  /\ proposal_file = None
  /\ data_file \in SearchDocs
  /\ InitApply
  /\ remote_file = data_file
  /\ upload_log = [ before |-> data_file, accepted |-> FALSE, cause |-> "" ]
  /\ iter_files = <<>>
  /\ last_write = [ tool |-> "", iteration |-> 0, files |-> {},
                    latest |-> 0, created |-> FALSE ]
  /\ argv = <<>>
  /\ config_file \in ConfigFiles
  /\ reference_file \in ReferenceFiles
  /\ search_results = None
  /\ search_file = NoFile
  /\ search_runs = 0
  /\ InitAmbient

SearchNext == RunIdentifySnapshot

SearchSpec == SearchInit /\ [][SearchNext]_vars

\* ------------------------------------------------------------------------
\* Claims on identify_snapshot.py
\* ------------------------------------------------------------------------

RECURSIVE Entries(_, _)

\* every value of a JSON value at any depth, with the path that leads to it
Entries(obj, path) ==
  CASE obj.type = "dict" ->
         UNION { { [ path |-> ChildPath(path, k), value |-> obj.val[1][k] ] }
                   \cup Entries(obj.val[1][k], ChildPath(path, k)) :
                 k \in DOMAIN obj.val[1] }
    [] obj.type = "list" ->
         UNION { { [ path |-> ItemPath(path, i - 1), value |-> obj.val[i] ] }
                   \cup Entries(obj.val[i], ItemPath(path, i - 1)) :
                 i \in 1..Len(obj.val) }
    [] OTHER -> {}

\* the numbers that the search strings and the floats of the documents
\* denote
NumberOf == ("12" :> 12) @@ ("12.0" :> 12)

\* a JSON number (not a boolean) equal to the target
EqualsTarget(value, target) ==
  /\ target \in DOMAIN NumberOf
  /\ \/ value.type = "int" /\ value.val[1] = NumberOf[target]
     \/ value.type = "float" /\ NumberOf[value.val[1]] = NumberOf[target]

\* a string that contains the target case-insensitively, or a number equal
\* to it
IsExactMatch(value, target) ==
  \/ value.type = "str" /\ ContainsLower(target, value.val[1])
  \/ EqualsTarget(value, target)

\* the latest run of identify_snapshot.py was a value search
ValueSearched ==
  search_results # None /\ search_results.search_mode = "value"

Tagged(result) == "fuzzy_match" \in DOMAIN result

PathValue(result) == [ path |-> result.path, value |-> result.value ]

\* the results of the latest search
Found == search_results.results

FoundEntries == { PathValue(Found[i]) : i \in DOMAIN Found }

ExactEntries ==
  { e \in Entries(JDict(data_file), <<>>) :
      IsExactMatch(e.value, search_results.search_value) }

\* C22: a value search returns every exact match of the document (a string
\* that contains the target case-insensitively, a number equal to the
\* target) with its full path and untagged whenever there is one; it returns
\* fuzzy matches only when there is no exact match, and never both kinds.
C22_ExactBeforeFuzzy ==
  ValueSearched =>
    /\ ExactEntries # {} =>
         /\ FoundEntries = ExactEntries
         /\ Len(Found) = Cardinality(ExactEntries)
         /\ \A i \in DOMAIN Found : ~Tagged(Found[i])
    /\ ExactEntries = {} => \A i \in DOMAIN Found : Tagged(Found[i])
    /\ \A i, j \in DOMAIN Found : Tagged(Found[i]) = Tagged(Found[j])

\* the search value of the latest search
Target == search_results.search_value

\* the latest run was a value search that found no exact match
FuzzySearched ==
  ValueSearched /\ search_in_dict(JDict(data_file), Target, <<>>) = <<>>

\* the non-empty strings of the document that score at least 0.6
Candidates ==
  { e \in Entries(JDict(data_file), <<>>) :
      /\ e.value.type = "str"
      /\ e.value.val[1] # ""
      /\ ScoreGE(SimilarityTable[Target][e.value.val[1]], min_similarity) }

\* C23: when there is no exact match the result is the five (or fewer)
\* highest-scoring non-empty strings among those that score at least 0.6,
\* each once, with its score, tagged fuzzy, in descending order of score.
C23_FuzzyRanking ==
  FuzzySearched =>
    /\ Len(Found) = (IF Cardinality(Candidates) < 5
                     THEN Cardinality(Candidates) ELSE 5)
    /\ Cardinality(FoundEntries) = Len(Found)
    /\ FoundEntries \subseteq Candidates
    /\ \A i \in DOMAIN Found :
         /\ Tagged(Found[i]) /\ Found[i].fuzzy_match = TRUE
         /\ Found[i].similarity_score
              = SimilarityTable[Target][Found[i].value.val[1]]
         /\ \A j \in DOMAIN Found :
              i < j => ScoreGE(Found[i].similarity_score,
                               Found[j].similarity_score)
         /\ \A e \in Candidates \ FoundEntries :
              ScoreGE(Found[i].similarity_score,
                      SimilarityTable[Target][e.value.val[1]])

\* ABC123 over ids one or two edits away: ABC12, ABD123, AB123, abd123 and
\* ABC are returned in this order, ABX1Y3 and AXY123 are cut, XYZ999 is no
\* candidate
C23_Witness ==
  /\ FuzzySearched
  /\ Target = "ABC123"
  /\ Cardinality(Candidates) = 7
  /\ [ i \in DOMAIN Found |-> Found[i].value ]
       = << JStr("ABC12"), JStr("ABD123"), JStr("AB123"), JStr("abd123"),
            JStr("ABC") >>
  /\ \E e \in Entries(JDict(data_file), <<>>) : e.value = JStr("XYZ999")

\* every record (JSON object) of the document at any depth, the document
\* itself included, with the path that leads to it
Records ==
  { [ path |-> <<>>, value |-> JDict(data_file) ] }
    \cup { e \in Entries(JDict(data_file), <<>>) : e.value.type = "dict" }

\* the latest run was a search for an empty field that reached
\* search_empty_field
EmptyFieldSearched ==
  /\ search_results # None
  /\ search_results.search_mode = "empty_field"
  /\ find_empty_arrays(JDict(data_file), Target, <<>>) = <<>>

\* null, the empty string or a string of whitespace only
NullOrBlank(value) ==
  \/ value.type = "null"
  \/ /\ value.type = "str"
     /\ \A i \in DOMAIN SearchChars[value.val[1]] :
          SearchChars[value.val[1]][i] = " "

\* what a result says about where it was found
FoundIn(result) == [ path |-> result.path, parent |-> result.parent ]

\* the entry that collects the record e for the field f
Collected(e, f) == [ path |-> ChildPath(e.path, f), parent |-> e.value ]

\* C24 as stated: the search for the field f collects every record in which
\* f is null, absent or whitespace-only, and no record in which f holds a
\* non-blank value.
C24_NullAbsentOrBlank ==
  EmptyFieldSearched =>
    { FoundIn(Found[i]) : i \in DOMAIN Found }
      = { Collected(e, Target) :
            e \in { r \in Records :
                      \/ Target \notin DOMAIN r.value.val[1]
                      \/ NullOrBlank(r.value.val[1][Target]) } }

\* C24 amended: the search for the field f collects, once and with the value
\* found, every record in which f is present and null or whitespace-only,
\* and no record in which f is absent or holds a non-blank value.
C24_PresentNullOrBlank ==
  EmptyFieldSearched =>
    /\ { FoundIn(Found[i]) : i \in DOMAIN Found }
         = { Collected(e, Target) :
               e \in { r \in Records :
                         /\ Target \in DOMAIN r.value.val[1]
                         /\ NullOrBlank(r.value.val[1][Target]) } }
    /\ Cardinality({ FoundIn(Found[i]) : i \in DOMAIN Found }) = Len(Found)
    /\ \A i \in DOMAIN Found :
         Found[i].value = Found[i].parent.val[1][Target]

\* the search for "note" over records with a null, a blank, a non-blank and
\* no note: the first two are collected
C24_Witness ==
  /\ EmptyFieldSearched
  /\ Target = "note"
  /\ Len(Found) = 2
  /\ Found[1].value = JNull
  /\ Found[2].value = JStr(" ")
  /\ \E r \in Records : "note" \notin DOMAIN r.value.val[1]
  /\ \E r \in Records :
       "note" \in DOMAIN r.value.val[1] /\ r.value.val[1]["note"] = JStr("x")

\* the latest run was a search for an empty field that found an empty
\* collection of that name
EmptyCollectionFound ==
  /\ search_results # None
  /\ search_results.search_mode = "empty_field"
  /\ find_empty_arrays(JDict(data_file), Target, <<>>) # <<>>

\* config.json switches the reference fallback off
FallbackDisabled ==
  /\ config_file.exists
  /\ "use_reference_data_fallback" \in DOMAIN config_file.data
  /\ config_file.data["use_reference_data_fallback"] = JBool(FALSE)

\* the reference snapshot holds a non-empty collection under the name that
\* is the path of the empty collection
ReferenceHolds(path) ==
  /\ reference_file.exists
  /\ Len(path) = 1
  /\ path[1] \in DOMAIN reference_file.data
  /\ reference_file.data[path[1]].type = "list"
  /\ Len(reference_file.data[path[1]].val) > 0

\* C21: for an empty collection the result is the reference data as a
\* fallback with the manual-verification warning if and only if the
\* fallback flag is on and the reference snapshot holds a non-empty
\* collection of the same name; in every other case, and always when the
\* flag is off, it is manual_intervention_required with a reason.
C21_FallbackTiering ==
  EmptyCollectionFound =>
    /\ Len(Found) = 1
    /\ Found[1].value = JList(<<>>)
    /\ IF ~FallbackDisabled /\ ReferenceHolds(Found[1].path)
       THEN /\ "manual_intervention_required" \notin DOMAIN Found[1]
            /\ Found[1].fallback_solution = "reference_data"
            /\ Found[1].warning = ReferenceWarning
            /\ Found[1].reference_data_count
                 = Len(reference_file.data[Found[1].path[1]].val)
            /\ Found[1].reference_data
                 = FirstN(reference_file.data[Found[1].path[1]].val, 3)
       ELSE /\ "fallback_solution" \notin DOMAIN Found[1]
            /\ "reference_data" \notin DOMAIN Found[1]
            /\ Found[1].manual_intervention_required = TRUE
            /\ Found[1].reason
                 = (IF FallbackDisabled
                    THEN "Empty array - reference data fallback disabled in config"
                    ELSE "Empty array with no reference data available")

\* the top-level collection skills is empty, config.json does not hold the
\* flag and the reference snapshot holds four skills: three of them are
\* returned as samples with the warning
C21_Witness ==
  /\ EmptyCollectionFound
  /\ config_file.exists
  /\ "use_reference_data_fallback" \notin DOMAIN config_file.data
  /\ Found[1].path = << "skills" >>
  /\ Target = "skill_s"
  /\ "fallback_solution" \in DOMAIN Found[1]
  /\ Found[1].fallback_solution = "reference_data"
  /\ Found[1].reference_data_count = 4
  /\ Len(Found[1].reference_data) = 3

\* ------------------------------------------------------------------------
\* The tools and the iteration folders (ToolsSpec)
\* ------------------------------------------------------------------------

\* the iteration folders a behaviour creates
MaxIterations == 2

\* max() of a non-empty set of numbers
Max(S) == CHOOSE x \in S : \A y \in S : y <= x

\* runtime_storage.get_iteration_folders: the numbers of the folders
\* iteration-<n> of the snapshot; folders maps each number to the names of
\* the files in the folder
get_iteration_folders(folders) == DOMAIN folders

\* get_next_iteration_number: (max(nums) + 1) if nums else 1
get_next_iteration_number(folders) ==
  IF get_iteration_folders(folders) = {} THEN 1
  ELSE Max(get_iteration_folders(folders)) + 1

\* runtime_storage.get_iteration_folders_with_file
get_iteration_folders_with_file(folders, filename) ==
  { n \in DOMAIN folders : filename \in folders[n] }

\* identify_snapshot.get_latest_iteration_dir: the highest folder number,
\* 0 for None
get_latest_iteration_dir(folders) ==
  IF DOMAIN folders = {} THEN 0 ELSE Max(DOMAIN folders)

\* the folders once the files names are written into iteration-<n>, which is
\* created when it does not exist
WriteInto(folders, n, names) ==
  [ k \in DOMAIN folders \cup { n } |->
      IF k = n
      THEN (IF n \in DOMAIN folders THEN folders[n] ELSE {}) \cup names
      ELSE folders[k] ]

\* what a run that wrote the files names into iteration-<n> leaves in
\* last_write: latest is the highest folder number before the run
WriteOf(tool, n, names, folders) ==
  [ tool |-> tool, iteration |-> n, files |-> names,
    latest |-> get_latest_iteration_dir(folders),
    created |-> n \notin DOMAIN folders ]

\* what a run of a tool leaves: exit code, stderr, the iteration folders,
\* the folder it wrote into and the files written there (0 and {} when it
\* wrote into no folder), last_search_results.json, the stored proposal and
\* snapshot-data.json
ToolExit(returncode, stderr, folders, n, names, search, proposal, data) ==
  [ returncode |-> returncode, stderr |-> stderr, folders |-> folders,
    iteration |-> n, written |-> names, search_file |-> search,
    proposal |-> proposal, data |-> data ]

\* identify_snapshot.py run by trigger_identify_tool: search is what main
\* found (None when it returned early); last_search_results.json is written
\* and, when there are results, copied into the latest iteration folder
identify_snapshot_main(search, folders, n, names, old_search, proposal, data) ==
  IF search # None /\ Len(search.results) > 0
       /\ get_latest_iteration_dir(folders) # 0
  THEN ToolExit(0, "",
                WriteInto(folders, get_latest_iteration_dir(folders),
                          { "last_search_results.json" }),
                get_latest_iteration_dir(folders),
                names \cup { "last_search_results.json" },
                SearchFileAfter(search, old_search), proposal, data)
  ELSE ToolExit(0, "", folders, n, names,
                SearchFileAfter(search, old_search), proposal, data)

\* how a run of identify_error_llm.py can go: the validation file cannot be
\* loaded, the analysis returns None (no ERROR message, prompt not
\* loadable), the analysis is saved in a new iteration folder and no search
\* is asked for, or it is saved and identify_snapshot.py is run
IdentifyOutcomes(vfile) ==
  IF ~vfile.exists THEN { "no_validation" }
  ELSE IF \A i \in DOMAIN vfile.data : vfile.data[i] # "ERROR"
  THEN { "no_analysis" }
  ELSE { "no_analysis", "analysed", "investigated" }

\* variant of identify_error_main whose save replaces the document by the
\* analysed error's record
identify_error_main_Rewrites(outcome, search, folders, old_search, proposal, data) ==
  ToolExit(0, "", folders, 0, {}, old_search, proposal,
           [ demands |-> JList(<<>>) ])

\* main() of identify_error_llm.py
identify_error_main(outcome, search, folders, old_search, proposal, data) ==
  CASE outcome \in { "no_validation", "no_analysis" } ->
         ToolExit(0, "", folders, 0, {}, old_search, proposal, data)
    [] outcome = "analysed" ->
         ToolExit(0, "",
                  WriteInto(folders, get_next_iteration_number(folders),
                            { "llm_identify_response.json",
                              "llm_identify_call.json" }),
                  get_next_iteration_number(folders),
                  { "llm_identify_response.json", "llm_identify_call.json" },
                  old_search, proposal, data)
    [] outcome = "investigated" ->
         identify_snapshot_main(
           search,
           WriteInto(folders, get_next_iteration_number(folders),
                     { "llm_identify_response.json", "llm_identify_call.json" }),
           get_next_iteration_number(folders),
           { "llm_identify_response.json", "llm_identify_call.json" },
           old_search, proposal, data)

\* main() of generate_correction_llm.py; answer is the Proposer's answer
\* (None for the JSON value null, on which correction_proposal.get raises)
generate_correction_main(answer, folders, search, proposal, data) ==
  IF get_iteration_folders(folders) = {}
  THEN ToolExit(1, "FileNotFoundError: No iteration folders found in ../Snapshots/A",
                folders, 0, {}, search, proposal, data)
  ELSE IF get_iteration_folders_with_file(folders, "llm_identify_response.json") = {}
  THEN ToolExit(1, "FileNotFoundError: No iteration folders with llm_identify_response.json found",
                folders, 0, {}, search, proposal, data)
  ELSE IF "llm_identify_response.json"
            \notin folders[get_latest_iteration_dir(folders)]
  THEN ToolExit(1, "FileNotFoundError: llm_identify_response.json not found in iteration-1",
                folders, 0, {}, search, proposal, data)
  ELSE IF ~search.exists
  THEN ToolExit(1, "FileNotFoundError: last_search_results.json not found in A",
                folders, 0, {}, search, proposal, data)
  ELSE IF answer = None
  THEN ToolExit(1, "AttributeError: 'NoneType' object has no attribute 'get'",
                folders, 0, {}, search, proposal, data)
  ELSE ToolExit(0, "",
                WriteInto(folders,
                          Max(get_iteration_folders_with_file(
                                folders, "llm_identify_response.json")),
                          { "llm_correction_proposal.json",
                            "llm_correction_call.json" }),
                Max(get_iteration_folders_with_file(
                      folders, "llm_identify_response.json")),
                { "llm_correction_proposal.json", "llm_correction_call.json" },
                search, answer, data)

\* the names of the retry files validate_with_retry saves
RetryFiles ==
  { "llm_correction_proposal_retry_0.json", "llm_correction_proposal_retry_1.json" }

\* main() of validate_correction_schema_llm.py; answer is the valid proposal
\* a retry returns (None when max_retries retries returned none)
validate_correction_schema_main(answer, folders, search, proposal, data) ==
  IF get_iteration_folders_with_file(folders, "llm_correction_proposal.json") = {}
  THEN ToolExit(1, "", folders, 0, {}, search, proposal, data)
  ELSE IF validate_correction_proposal(proposal)
  THEN ToolExit(0, "", folders, 0, {}, search, proposal, data)
  ELSE IF answer = None
  THEN ToolExit(1, "",
                WriteInto(folders,
                          Max(get_iteration_folders_with_file(
                                folders, "llm_correction_proposal.json")),
                          RetryFiles),
                Max(get_iteration_folders_with_file(
                      folders, "llm_correction_proposal.json")),
                RetryFiles, search, proposal, data)
  ELSE ToolExit(0, "",
                WriteInto(folders,
                          Max(get_iteration_folders_with_file(
                                folders, "llm_correction_proposal.json")),
                          RetryFiles \cup { "llm_correction_proposal.json" }),
                Max(get_iteration_folders_with_file(
                      folders, "llm_correction_proposal.json")),
                RetryFiles \cup { "llm_correction_proposal.json" },
                search, answer, data)

\* apply_correction.get_latest_iteration_number and backup_files_to_iteration:
\* the folder the backup goes to (0 when get_latest_iteration_number raises)
\* and the files copied there
BackupIteration(folders) ==
  IF get_iteration_folders_with_file(folders, "llm_correction_proposal.json") = {}
  THEN 0
  ELSE Max(get_iteration_folders_with_file(folders, "llm_correction_proposal.json"))

BackupFiles(vfile) ==
  { "snapshot-data.json" }
    \cup (IF vfile.exists THEN { "snapshot-validation.json" } ELSE {})

\* the argument list trigger_identify_tool builds for a search of the value
\* D1: --snapshot-id and the snapshot first, then the value
TriggerArgs(sid) == { << "--snapshot-id", sid, "D1" >> }

\* the Proposer's answers to generate_correction_llm.py and to the retry of
\* validate_correction_schema_llm.py
ToolsAnswers ==
  { PatchOf("update_field", FieldPath, JMissing, JStr("D1_2"), <<>>),
    Response(Patch(JStr("update_field"), JPath(FieldPath), JStr("D1_2"), JMissing)),
    None }

ToolsRepairs ==
  { PatchOf("update_field", FieldPath, JMissing, JStr("D1_2"), <<>>), None }

\* what a tool run leaves in the files and in last_write
ToolFiles(r) ==
  /\ iter_files' = r.folders
  /\ last_write' = IF r.iteration = 0 THEN last_write
                   ELSE WriteOf(step, r.iteration, r.written, iter_files)
  /\ search_file' = r.search_file
  /\ proposal_file' = r.proposal

\* _run_tool on identify_error_llm.py
RunIdentifyError ==
  /\ pc = "run"
  /\ step = "identify_error_llm"
  /\ \E outcome \in IdentifyOutcomes(validation_file) \cup { "timeout" } :
     \E args \in IF outcome = "investigated" THEN TriggerArgs(snapshot_id)
                 ELSE { argv } :
     \E search \in { IF outcome = "investigated"
                     THEN SearchOf(args, data_file, config_file, reference_file)
                     ELSE search_results } :
     \E r \in { IF outcome = "timeout"
                THEN ToolExit(1, "", iter_files, 0, {}, search_file,
                              proposal_file, data_file)
                ELSE identify_error_main(outcome, search, iter_files,
                                         search_file, proposal_file, data_file) } :
     \E tool_result \in { IF outcome = "timeout" THEN TimeoutResult
                          ELSE ProcessResult(r.returncode, r.stderr) } :
       /\ ~tool_result.success => failures < MaxFailures
       /\ outcome \in { "analysed", "investigated" }
            => Cardinality(DOMAIN iter_files) < MaxIterations
       /\ AfterTool(tool_result, attempt + 1, gate_starts, exhausted,
                    validation_file, FALSE)
       /\ ToolFiles(r)
       /\ data_file' = r.data
       /\ argv' = args
       /\ search_results' = search
       /\ search_runs' = IF outcome = "investigated"
                         THEN search_runs + 1 ELSE search_runs
  /\ UNCHANGED << pipeline_name, snapshot_id, gateVars, requests >>
  /\ UNCHANGED << backup_file, apply_log, pre_patch, apply_runs >>
  /\ UNCHANGED << storeVars, config_file, reference_file, ambientVars >>

\* _run_tool on generate_correction_llm.py
RunGenerateProposal ==
  /\ pc = "run"
  /\ step = "generate_correction_llm"
  /\ \E answer \in ToolsAnswers :
     \E timeout \in BOOLEAN :
     \E r \in { IF timeout
                THEN ToolExit(1, "", iter_files, 0, {}, search_file,
                              proposal_file, data_file)
                ELSE generate_correction_main(answer, iter_files, search_file,
                                              proposal_file, data_file) } :
     \E tool_result \in { IF timeout THEN TimeoutResult
                          ELSE ProcessResult(r.returncode, r.stderr) } :
       /\ ~tool_result.success => failures < MaxFailures
       /\ AfterTool(tool_result, attempt + 1, gate_starts, exhausted,
                    validation_file, FALSE)
       /\ ToolFiles(r)
       /\ data_file' = r.data
  /\ UNCHANGED << pipeline_name, snapshot_id, gateVars, requests >>
  /\ UNCHANGED << backup_file, apply_log, pre_patch, apply_runs >>
  /\ UNCHANGED << storeVars, argv, config_file, reference_file,
                  search_results, search_runs, ambientVars >>

\* _run_tool on validate_correction_schema_llm.py, from its start to its exit
RunSchemaGate ==
  /\ pc = "run"
  /\ step = "validate_correction_schema_llm"
  /\ \E answer \in ToolsRepairs :
     \E r \in { validate_correction_schema_main(answer, iter_files, search_file,
                                                proposal_file, data_file) } :
     \E tool_result \in { ProcessResult(r.returncode, r.stderr) } :
       /\ ~tool_result.success => failures < MaxFailures
       /\ AfterTool(tool_result, attempt + 1, gate_starts, exhausted,
                    validation_file, FALSE)
       /\ ToolFiles(r)
       /\ data_file' = r.data
  /\ UNCHANGED << pipeline_name, snapshot_id, gateVars, requests >>
  /\ UNCHANGED << backup_file, apply_log, pre_patch, apply_runs >>
  /\ UNCHANGED << storeVars, argv, config_file, reference_file,
                  search_results, search_runs, ambientVars >>

\* _run_tool on apply_correction.py: the backup goes into the highest
\* iteration folder that holds a proposal, and that proposal is applied
RunApplyLatest ==
  /\ pc = "run"
  /\ step = "apply_correction"
  /\ \E r \in { ApplyMain(proposal_file, data_file, backup_file) } :
     \E tool_result \in { ProcessResult(r.returncode, r.stderr) } :
     /\ ~tool_result.success => failures < MaxFailures
     /\ AfterTool(tool_result, attempt + 1, gate_starts, exhausted,
                  validation_file, FALSE)
     /\ ApplyFiles(r)
     /\ iter_files' = IF BackupIteration(iter_files) = 0 THEN iter_files
                      ELSE WriteInto(iter_files, BackupIteration(iter_files),
                                     BackupFiles(validation_file))
     /\ last_write' = IF BackupIteration(iter_files) = 0 THEN last_write
                      ELSE WriteOf(step, BackupIteration(iter_files),
                                   BackupFiles(validation_file), iter_files)
  /\ UNCHANGED << pipeline_name, snapshot_id, proposal_file, gateVars, requests >>
  /\ UNCHANGED << storeVars, searchVars, ambientVars >>

ToolsInit ==
  /\ InitExecutor
  /\ validation_file = NoFile
  /\ proposal_file = None
  /\ data_file = DupDoc
  /\ InitApply
  /\ InitFiles

ToolsNext ==
  \/ execute_pipeline("analyze_only", "A")
  \/ execute_pipeline("apply_and_upload", "A")
  \/ RunValidateSnapshot
  \/ RunIdentifyError
  \/ RunGenerateProposal
  \/ RunSchemaGate
  \/ RunApplyLatest
  \/ RunUploadSnapshot
  \/ ReturnToCaller

ToolsSpec == ToolsInit /\ [][ToolsNext]_vars

\* ------------------------------------------------------------------------
\* Claims on the iteration folders and on the document (ToolsSpec)
\* ------------------------------------------------------------------------

\* C28: iteration numbers strictly increase: a run that creates an iteration
\* folder gives it a number greater than every existing one, and once a
\* later iteration exists no artifact is written into an earlier one: a run
\* that writes into an existing folder writes into the highest.
\* (Violated: apply_correction.py and validate_correction_schema_llm.py
\* write into the highest folder that holds a proposal, which is an earlier
\* one when the latest iteration got no proposal.)
C28_NoWriteIntoEarlier ==
  last_write.iteration # 0
    => IF last_write.created
       THEN last_write.iteration > last_write.latest
       ELSE last_write.iteration = last_write.latest

\* C29: the analysis-only pipeline never modifies the document, whether its
\* steps succeed or fail, and only a run of apply_correction.py changes the
\* document at all.
C29_OnlyApplyMutates ==
  [][ /\ data_file' # data_file => pc = "run" /\ step = "apply_correction"
      /\ pipeline_name = "analyze_only" /\ pc = "run" => data_file' = data_file
    ]_vars

\* an analysis-only run went through its four steps and wrote a proposal
\* over the document an earlier patch had changed, and left it as the patch
\* left it
C29_Witness ==
  /\ Succeeded
  /\ pipeline_name = "analyze_only"
  /\ Len(last_result.completed_steps) = 4
  /\ last_write.tool = "generate_correction_llm"
  /\ apply_runs > 0
  /\ data_file # DupDoc
  /\ data_file = apply_log[Len(apply_log)].after

\* ------------------------------------------------------------------------
\* One full_correction call over the tools (CorrectionSpec)
\* ------------------------------------------------------------------------

\* the executor after execute_pipeline(p, sid) returned to its caller
Returned(p, sid) ==
  /\ pc = "idle"
  /\ pipeline_name = p
  /\ snapshot_id = sid
  /\ iteration = 0
  /\ step_index = 1
  /\ attempt = 0
  /\ results = <<>>
  /\ last_result = None
  /\ current_proposal = None
  /\ retry_count = 0
  /\ gate_result = None
  /\ runs = 0
  /\ calls = <<>>
  /\ failures = 0
  /\ last_error = ""
  /\ gate_starts = 0
  /\ requests = 0
  /\ exhausted = 0
  /\ failed_runs = 0

\* the files of an analysis
AnalysisFiles == { "llm_identify_response.json", "llm_identify_call.json" }

ProposalFiles == { "llm_correction_proposal.json", "llm_correction_call.json" }

\* the snapshot folder after execute_pipeline("analyze_only", "A") ran once
\* on DupDoc and succeeded: the validation holds one ERROR, iteration-1 holds
\* the analysis and the proposal, identify_snapshot.py ran once
AfterAnalysis ==
  /\ Returned("analyze_only", "A")
  /\ validation_file = FileOf(<< "ERROR" >>)
  /\ proposal_file = PatchOf("update_field", FieldPath, JMissing, JStr("D1_2"), <<>>)
  /\ data_file = DupDoc
  /\ InitApply
  /\ remote_file = DupDoc
  /\ upload_log = [ before |-> DupDoc, accepted |-> FALSE, cause |-> "" ]
  /\ iter_files = WriteInto(WriteInto(<<>>, 1, AnalysisFiles), 1, ProposalFiles)
  /\ last_write = WriteOf("generate_correction_llm", 1, ProposalFiles,
                          WriteInto(<<>>, 1, AnalysisFiles))
  /\ argv = << "--snapshot-id", "A", "D1" >>
  /\ config_file = NoFile
  /\ reference_file = NoFile
  /\ search_results = SearchOf(<< "--snapshot-id", "A", "D1" >>, DupDoc, NoFile, NoFile)
  /\ search_file =
       SearchFileAfter(SearchOf(<< "--snapshot-id", "A", "D1" >>, DupDoc, NoFile, NoFile),
                       NoFile)
  /\ search_runs = 1
  /\ InitAmbient

\* the snapshot folder as downloaded, or after an earlier analysis run
CorrectionInit == ToolsInit \/ AfterAnalysis

CorrectionNext ==
  \/ execute_pipeline("full_correction", "A")
  \/ RunValidateSnapshot
  \/ RunIdentifyError
  \/ RunGenerateProposal
  \/ RunSchemaGate
  \/ RunApplyLatest
  \/ RunUploadSnapshot

CorrectionSpec == CorrectionInit /\ [][CorrectionNext]_vars

\* ------------------------------------------------------------------------
\* Claims on the full_correction call (CorrectionSpec)
\* ------------------------------------------------------------------------

\* the stored validation reports no ERROR
ZeroErrors == validation_file.exists /\ CountLevel(validation_file.data, "ERROR") = 0

\* C31: a patch a run applies comes from the error selected and the search
\* performed in that run; in particular the apply step of a full_correction
\* run whose validation reports zero ERRORs leaves the document unchanged,
\* also when iterations of earlier runs exist.
\* (Violated: with zero ERRORs identify_error_llm.py exits 0 without a new
\* iteration, generate_correction_llm.py writes a proposal from the analysis
\* and the search of the earlier run, and apply_correction.py applies it.)
C31_ZeroErrorsApplyNothing ==
  [][ ( /\ pc = "run"
        /\ pipeline_name = "full_correction"
        /\ step = "apply_correction"
        /\ ZeroErrors )
      => data_file' = data_file ]_vars

\* ------------------------------------------------------------------------
\* All-or-nothing apply (PatchSpec)
\* ------------------------------------------------------------------------

RECURSIVE InListOrder(_, _, _)

\* document doc after the first k of the updates, each set at its path on
\* what the one before it left
InListOrder(doc, updates, k) ==
  IF k = 0 THEN doc
  ELSE apply_single_update(InListOrder(doc, updates, k - 1),
                           updates[k].val[1].target_path.val,
                           updates[k].val[1].new_value).data

\* what the action of the stored proposal of run e alone makes of the
\* document
PrimaryOf(e) == apply_action(e.before, e.proposal.correction_proposal.val[1])

\* C32: a run of the apply tool that fails (in the primary action or in any
\* additional update) leaves the persisted document exactly as it was before
\* the run; a run that succeeds on a proposal other than manual intervention
\* leaves the document the primary action made, with the additional updates
\* applied to it in list order
C32_AllOrNothing ==
  \A e \in Runs :
    /\ e.returncode # 0 => e.after = e.before
    /\ ( /\ Valid(e)
         /\ e.returncode = 0
         /\ ActionOf(e) # "manual_intervention_required" )
         => /\ PrimaryOf(e).ok
            /\ e.after = InListOrder(PrimaryOf(e).data, UpdatesOf(e),
                                     Len(UpdatesOf(e)))

\* a run whose primary action and first additional update changed the
\* document in memory and whose second additional update raised: the file
\* is as before
C32_Witness ==
  \E e \in Runs :
    /\ Valid(e)
    /\ Len(UpdatesOf(e)) = 2
    /\ PrimaryOf(e).ok
    /\ PrimaryOf(e).data # e.before
    /\ InListOrder(PrimaryOf(e).data, UpdatesOf(e), 1) # PrimaryOf(e).data
    /\ e.returncode = 1
    /\ e.after = e.before

\* ------------------------------------------------------------------------
\* The final validation status and the re-validate step (Spec)
\* ------------------------------------------------------------------------

\* C33: when a validate step of a correction pipeline run did not obtain the
\* validation messages from the validation service (no validation result
\* is stored after it), the invocation is counted as failed, and the run
\* does not return success with a final validation status computed from
\* the missing result
C33_FailedValidationFailsStep ==
  [][ ( /\ pc = "run"
        /\ IsCorrectionPipeline(pipeline_name)
        /\ step = "validate_snapshot"
        /\ ~validation_file'.exists )
        => /\ failures' = failures + 1
           /\ ~( /\ pc' = "done"
                 /\ last_result'.success
                 /\ last_result'.final_validation # None ) ]_vars

\* ------------------------------------------------------------------------
\* The reference fallback switch and the apply tool (FallbackSpec)
\* ------------------------------------------------------------------------

\* stored proposals that ask for reference data, and some that do not
ReferenceProposals ==
  { PatchOf("update_field", BarePath, JMissing, JStr("USE_REFERENCE_DATA"), <<>>),
    PatchOf("update_field", BarePath, JMissing, JStr("USE_REFERENCE_DATA"),
            << Update(FieldPath, JStr("D1_2")) >>),
    PatchOf("update_field", <<"workers">>, JMissing, JStr("USE_REFERENCE_DATA"), <<>>),
    PatchOf("update_field", FieldPath, JMissing, JStr("D1_2"), <<>>),
    PatchOf("manual_intervention_required", BarePath, JMissing,
            JStr("USE_REFERENCE_DATA"), <<>>) }

\* the executor running apply_and_upload under every setting of config.json,
\* with reference-snapshot.json in place
FallbackInit ==
  /\ InitExecutor
  /\ validation_file = NoFile
  /\ proposal_file \in ReferenceProposals
  /\ data_file \in PatchDocs
  /\ InitApply
  /\ remote_file = data_file
  /\ upload_log = [ before |-> data_file, accepted |-> FALSE, cause |-> "" ]
  /\ iter_files = <<>>
  /\ last_write = [ tool |-> "", iteration |-> 0, files |-> {},
                    latest |-> 0, created |-> FALSE ]
  /\ argv = <<>>
  /\ config_file \in ConfigFiles
  /\ reference_file = FileOf(ReferenceSnapshot)
  /\ search_results = None
  /\ search_file = NoFile
  /\ search_runs = 0
  /\ InitAmbient

FallbackSpec == FallbackInit /\ [][ApplyNext]_vars

\* run e put the reference document's value of some collection in place of
\* the document's own
CopiedReference(e) ==
  \E k \in DOMAIN reference_file.data :
    /\ k \in DOMAIN e.after
    /\ e.after[k] = reference_file.data[k]
    /\ e.before[k] # reference_file.data[k]

\* C34: when use_reference_data_fallback is false in config.json, no run of
\* the apply step copies data of the reference document into the document,
\* whatever the stored proposal is
C34_FallbackGatesMutation ==
  ~use_reference_fallback(config_file)
    => \A e \in Runs : ~CopiedReference(e)

\* ------------------------------------------------------------------------
\* The snapshot each tool works on (AmbientSpec)
\* ------------------------------------------------------------------------

\* argparse's --snapshot-id with the fallback on current_snapshot.txt: the
\* argument has priority
load_current_snapshot_id(sid, cur) == IF sid # "" THEN sid ELSE cur

\* the snapshot folders a run of the tool opens when _run_tool passes
\* --snapshot-id sid (nothing for "") and current_snapshot.txt names cur;
\* second: validate_snapshot.py's second call of validate_snapshot() reached
\* the service, identify_error_llm.py started identify_snapshot.py
SnapshotsOf(tool, sid, cur, second) ==
  ( CASE tool = "validate_snapshot" ->
           { load_current_snapshot_id(sid, cur) }
             \cup (IF second THEN { cur } ELSE {})
      [] tool = "identify_error_llm" ->
           { load_current_snapshot_id(sid, cur) }
             \cup (IF second THEN { cur } ELSE {})
      [] tool = "validate_correction_schema_llm" ->
           { load_current_snapshot_id(sid, cur) }
      [] OTHER -> { cur } ) \ { "" }

\* the tools that exit with 1 when they find no snapshot id
NeedsSnapshot ==
  { "generate_correction_llm", "validate_correction_schema_llm",
    "apply_correction", "update_snapshot" }

\* one loop iteration of `while attempt <= max_retries`, for any step: a
\* run that exits with 0 has opened the folders of the snapshots it
\* resolved
RunToolOnSnapshot ==
  /\ pc = "run"
  /\ \E tool_result \in ToolResults :
     \E second \in IF tool_result.success
                      /\ step \in { "validate_snapshot", "identify_error_llm" }
                   THEN BOOLEAN ELSE { FALSE } :
     \E vfile \in IF tool_result.success /\ step = "validate_snapshot"
                  THEN { validation_file } \cup { FileOf(d) : d \in ValidationData }
                  ELSE { validation_file } :
       /\ Possible(tool_result)
       /\ ( /\ step \in NeedsSnapshot
            /\ SnapshotsOf(step, snapshot_id, current_snapshot, FALSE) = {} )
            => ~tool_result.success
       /\ AfterTool(tool_result, attempt + 1, gate_starts, exhausted,
                    vfile, FALSE)
       /\ accessed' =
            IF tool_result.success
            THEN accessed \cup
                   { [ tool |-> step, id |-> i ] :
                       i \in SnapshotsOf(step, snapshot_id, current_snapshot, second) }
            ELSE accessed
  /\ current_snapshot' = current_snapshot
  /\ UNCHANGED << pipeline_name, snapshot_id, proposal_file, gateVars, requests >>
  /\ UNCHANGED applyVars
  /\ UNCHANGED << storeVars, iterVars, searchVars >>

\* current_snapshot.txt names the snapshot of the call, another snapshot, or
\* is missing
AmbientInit ==
  /\ InitExecutor
  /\ validation_file \in { NoFile, FileOf(<< "ERROR" >>) }
  /\ proposal_file = None
  /\ data_file = DupDoc
  /\ InitApply
  /\ remote_file = data_file
  /\ upload_log = [ before |-> data_file, accepted |-> FALSE, cause |-> "" ]
  /\ iter_files = <<>>
  /\ last_write = [ tool |-> "", iteration |-> 0, files |-> {},
                    latest |-> 0, created |-> FALSE ]
  /\ argv = <<>>
  /\ config_file = NoFile
  /\ reference_file = NoFile
  /\ search_results = None
  /\ search_file = NoFile
  /\ search_runs = 0
  /\ current_snapshot \in { "A", "B", "" }
  /\ accessed = {}

AmbientNext ==
  \/ \E p \in PipelineNames, sid \in SnapshotIds : execute_pipeline(p, sid)
  \/ RunToolOnSnapshot

AmbientSpec == AmbientInit /\ [][AmbientNext]_vars

\* C35: every step of a pipeline run opens the document and artifacts of the
\* id passed to execute_pipeline only, also when current_snapshot.txt names
\* another snapshot
C35_OneDocumentPerRun ==
  snapshot_id # "" => \A a \in accessed : a.id = snapshot_id

\* ------------------------------------------------------------------------
\* identify_snapshot.py run again on the same snapshot (RepeatSpec)
\* ------------------------------------------------------------------------

\* a run of identify_snapshot.py that may follow an earlier one
RunIdentifySnapshotAgain == RunSearch(MaxSearches + 1)

RepeatSpec == SearchInit /\ [][RunIdentifySnapshotAgain]_vars

\* C36: after every completed search, also one that finds nothing,
\* last_search_results.json describes the search just performed: its mode,
\* its search value and its results
C36_SearchAlwaysSaved ==
  search_results # None
    => /\ search_file.exists
       /\ search_file.data.search_mode = search_results.search_mode
       /\ search_file.data.search_value = search_results.search_value
       /\ search_file.data.results_count = Len(search_results.results)

\* ------------------------------------------------------------------------
\* The hand-off from the error analysis to the search (SearchSpec)
\* ------------------------------------------------------------------------

\* sys.argv[1:] of the identify_snapshot.py process that
\* trigger_identify_tool starts (search values of one word, which
\* normalize_field_name returns as they are)
trigger_identify_tool(search_mode, search_value, sid) ==
  (IF sid # "" THEN << "--snapshot-id", sid >> ELSE <<>>)
    \o (IF search_mode = "empty_field" THEN << "--empty", search_value >>
        ELSE << search_value >>)

\* the searches the analysis asks for
RequestedModes == { "value", "empty_field" }

RequestedValues == { "D1", "skills" }

\* C37: when the error analysis selects search mode m and search value v,
\* the search tool it triggers searches the document in mode m for v, also
\* when a snapshot id is passed along on the command line
C37_LocateHandOff ==
  \A m \in RequestedModes, v \in RequestedValues, sid \in SnapshotIds :
    ( search_runs > 0 /\ argv = trigger_identify_tool(m, v, sid) )
      => /\ search_results # None
         /\ search_results.search_mode = m
         /\ search_results.search_value = v

\* ------------------------------------------------------------------------
\* Termination of execute_pipeline (LiveSpec)
\* ------------------------------------------------------------------------

\* every tool invocation returns or times out: the step loop is not stopped
\* between two invocations
LiveSpec == Spec /\ WF_vars(RunValidateSnapshot) /\ WF_vars(RunTool)

\* the tool invocations of the call so far: the failed ones, one per step of
\* each earlier run (a run that is followed by another has succeeded in
\* every step) and the succeeded ones of this run
Invocations ==
  failures + (runs - 1) * Len(steps)
    + Cardinality({ k \in DOMAIN calls : calls[k].success })

\* C38: provided every tool invocation returns or times out, every
\* execute_pipeline call terminates; it makes at most 3 invocations per step
\* occurrence and at most 5 pipeline runs, hence at most 5 x 3 x (number of
\* steps of the pipeline) tool invocations
C38_Termination ==
  /\ [] ( pc # "idle"
            => /\ runs <= MAX_CORRECTION_ITERATIONS
               /\ \A i \in 1..Len(steps) : CallsOf(i) <= max_retries + 1
               /\ Invocations
                    <= MAX_CORRECTION_ITERATIONS * (max_retries + 1) * Len(steps) )
  /\ (pc = "run") ~> (pc = "done")

\* a call that has returned after five runs, in the last of which a step
\* took three invocations
C38_Witness ==
  /\ pc = "done"
  /\ runs = MAX_CORRECTION_ITERATIONS
  /\ \E i \in 1..Len(steps) : CallsOf(i) = max_retries + 1
  /\ Invocations = (runs - 1) * Len(steps) + Len(calls)

====
